---- MODULE Spec2Model ----
(***************************************************************************)
(* Chunking engine and retrieval pipeline of the RAG assistant.            *)
(*                                                                         *)
(*   SplitSpec  the sliding-window splitter (_split_long_text /            *)
(*              split_long_text), one loop iteration per step              *)
(*   ChunkSpec  the chunk assemblers (split_by_row, split_by_paragraph,    *)
(*              chunk_text_data, chunk_dataframe_data) driving the         *)
(*              splitter over the units of one ingestion run               *)
(*   RetrSpec   Retriever.retrieve against the Qdrant store wrapper        *)
(*   HybridSpec, LadderSpec, ExpansionSpec, ExpandSpec                     *)
(*              QueryOptimizer and HybridRetriever over the retriever      *)
(*   NormSpec   the text normaliser                                        *)
(*   SessionSpec  overlapping retrieve() calls on one shared Retriever     *)
(*                                                                         *)
(* Strings are sequences of one-character strings.  Scores are tenths      *)
(* (5 stands for 0.5).                                                     *)
(***************************************************************************)
EXTENDS Integers, Sequences, FiniteSets, TLC

VARIABLES
    \* ---- splitter call frame
    text,            \* the string being split
    chunk_size,      \* window size
    chunk_overlap,   \* overlap
    start,           \* local `start`
    chunks,          \* local list `chunks` (the windows emitted so far)
    spans,           \* history: <<start, end>> used for each emitted window
    pc,              \* "idle" | "call" | "loop" | "done" | "memory_error"
    \* ---- chunk assembler call frame
    mode,            \* which assembler runs: "none" | "row" | "para" | "uu_text" | "uu_df"
    doc,             \* its input: a text, or a data frame (list of rows)
    units,           \* the rows or paragraphs it iterates over
    unit_idx,        \* loop index over units (0-based)
    out,             \* list of chunk records built so far
    cpc,             \* "none" | "call" | "next" | "split" | "end" | "error"
    \* ---- Retriever instance and the frame of one retrieve() call
    index,           \* the collection: its points as hits for the query, best first
    min_score,       \* Retriever.min_score
    top_k,           \* Retriever.top_k
    client,          \* Retriever.client: "None" or "store"
    k,               \* local k
    vector_count,    \* local vector_count (Unset before it is assigned)
    query_embedding, \* local query_embedding
    search_results_all,  \* local: hits of the diagnostic search
    filtered_results,    \* local
    search_results,      \* local: hits of the primary search, or their substitute
    results,         \* the value retrieve() returns
    pending,         \* what the finally block completes: "return" | "raise"
    rpc,             \* "idle" | "open" | "info" | "embed" | "diag" | "primary"
                     \*   | "finally" | "returned" | "raised"
    \* ---- history of the current retrieve() call
    primary_hits,    \* what the primary search itself returned
    failed,          \* the external operations that raised during the call
    embed_calls,     \* calls of the embedding provider
    search_calls,    \* searches issued to the index
    open_handles,    \* index handles open in the process
    \* ---- QueryOptimizer / HybridRetriever and the frame of one of their calls
    query,           \* the user query of the call
    rankings,        \* the collection as ranked for each query embedded so far
    hash_seed,       \* the process's string hash seed (fixes set iteration order)
    req_top_k,       \* argument top_k
    use_expansion,   \* argument use_expansion
    response,        \* the LLM's answer to the last expand_query call
    queries,         \* local `queries` of retrieve_with_expansion
    variation,       \* loop index i of "for i, q in enumerate(queries, 1)"
    all_results,     \* local
    seen_ids,        \* local
    keywords,        \* local `keywords` of retrieve_with_fallback
    original_threshold,  \* local
    expansion_results,   \* the value retrieve_with_expansion returned last
    hybrid_results,  \* the value the outermost hybrid call returned
    hcaller,         \* the outermost call: "none" | "fallback" | "expansion" | "expand_query"
    hpc,             \* position inside the hybrid call
    \* ---- history of the current hybrid call
    tier_results,    \* the result of each fallback tier attempted, in order
    entry_min_score, \* min_score when retrieve_with_fallback was entered
    min_score_writes,    \* assignments to base_retriever.min_score during the call
    dropped,         \* results the dedup loop skipped
    variant_results, \* the query and the result of each retrieve() of the expansion loop
    \* ---- normalizer call
    norm_in,         \* argument of normalize_text
    norm_out,        \* its result
    norm_twice,      \* the result of normalizing the result
    npc,             \* "none" | "call" | "done"
    \* ---- retrieve() calls of several sessions on one shared Retriever
    shared_client,   \* Retriever.client: NoHandle (None) or the handle it holds
    tpc,             \* position of each session's call
    opened,          \* the handle each call opened (NoHandle before, or on failure)
    handles,         \* the handles that are open
    touched          \* history: <<operation, handle>> each call performed through
                     \*   Retriever.client

splitVars == <<text, chunk_size, chunk_overlap, start, chunks, spans, pc>>
chunkVars == <<mode, doc, units, unit_idx, out, cpc>>
retrVars == <<index, min_score, top_k, client, k, vector_count, query_embedding,
              search_results_all, filtered_results, search_results, results,
              pending, rpc, primary_hits, failed, embed_calls, search_calls,
              open_handles>>
hybVars == <<query, rankings, hash_seed, req_top_k, use_expansion, response, queries,
             variation, all_results, seen_ids, keywords, original_threshold,
             expansion_results, hybrid_results, hcaller, hpc, tier_results,
             entry_min_score, min_score_writes, dropped, variant_results>>
normVars == <<norm_in, norm_out, norm_twice, npc>>
concVars == <<shared_client, tpc, opened, handles, touched>>
vars == <<text, chunk_size, chunk_overlap, start, chunks, spans, pc,
          mode, doc, units, unit_idx, out, cpc,
          index, min_score, top_k, client, k, vector_count, query_embedding,
          search_results_all, filtered_results, search_results, results,
          pending, rpc, primary_hits, failed, embed_calls, search_calls,
          open_handles,
          query, rankings, hash_seed, req_top_k, use_expansion, response, queries,
          variation, all_results, seen_ids, keywords, original_threshold,
          expansion_results, hybrid_results, hcaller, hpc, tier_results,
          entry_min_score, min_score_writes, dropped, variant_results,
          norm_in, norm_out, norm_twice, npc,
          shared_client, tpc, opened, handles, touched>>

-----------------------------------------------------------------------------
(* Bounds of the model *)

MaxShortLen == 5      \* exhaustive texts up to this length
MaxSmallChunk == 4    \* small window sizes 1..MaxSmallChunk
MaxLiveLen == 3       \* texts of the termination check
MaxWindows == 12      \* windows the list `chunks` can hold before memory runs out

(* Program constants *)

SnapSpan == 100       \* the "within the last 100 chars" constant of the boundary snap

-----------------------------------------------------------------------------
(* The parts of the state a specification does not use stay at these values *)

Unset == 0 - 1              \* a local that has not been assigned

ChunkQuiet ==
    /\ mode = "none" /\ doc = <<>> /\ units = <<>> /\ unit_idx = 0
    /\ out = <<>> /\ cpc = "none"

SplitQuiet ==
    /\ text = <<>> /\ chunk_size = 0 /\ chunk_overlap = 0 /\ start = 0
    /\ chunks = <<>> /\ spans = <<>> /\ pc = "idle"

RetrQuiet ==
    /\ index = <<>> /\ min_score = 0 /\ top_k = 0 /\ client = "None" /\ k = 0
    /\ vector_count = Unset /\ query_embedding = <<>>
    /\ search_results_all = <<>> /\ filtered_results = <<>> /\ search_results = <<>>
    /\ results = <<>> /\ pending = "return" /\ rpc = "idle"
    /\ primary_hits = <<>> /\ failed = {} /\ embed_calls = 0 /\ search_calls = 0
    /\ open_handles = 0

HybQuiet ==
    /\ query = <<>> /\ rankings = <<>> /\ hash_seed = 0 /\ req_top_k = 0
    /\ use_expansion = FALSE /\ response = <<>> /\ queries = <<>> /\ variation = 0
    /\ all_results = <<>> /\ seen_ids = {} /\ keywords = <<>>
    /\ original_threshold = 0 /\ expansion_results = <<>> /\ hybrid_results = <<>>
    /\ hcaller = "none" /\ hpc = "none" /\ tier_results = <<>>
    /\ entry_min_score = 0 /\ min_score_writes = 0 /\ dropped = 0
    /\ variant_results = <<>>

NormQuiet ==
    /\ norm_in = <<>> /\ norm_out = <<>> /\ norm_twice = <<>> /\ npc = "none"

ConcQuiet ==
    /\ shared_client = 0 /\ tpc = <<>> /\ opened = <<>> /\ handles = {}
    /\ touched = <<>>

-----------------------------------------------------------------------------
(* Python primitives used by the code *)

Min(a, b) == IF a < b THEN a ELSE b
Max(a, b) == IF a > b THEN a ELSE b
SetMin(S) == CHOOSE x \in S : \A y \in S : x <= y
SetMax(S) == CHOOSE x \in S : \A y \in S : x >= y

Whitespace == {" ", "\n", "\t"}

\* s[i:j] with Python's treatment of negative and out-of-range indices
PySlice(s, i, j) ==
    LET n  == Len(s)
        lo == IF i < 0 THEN Max(n + i, 0) ELSE Min(i, n)
        hi == IF j < 0 THEN Max(n + j, 0) ELSE Min(j, n)
    IN  IF lo >= hi THEN <<>> ELSE SubSeq(s, lo + 1, hi)

\* the 0-based positions of s that s[i:j] contains
PySliceIdx(n, i, j) ==
    LET lo == IF i < 0 THEN Max(n + i, 0) ELSE Min(i, n)
        hi == IF j < 0 THEN Max(n + j, 0) ELSE Min(j, n)
    IN  lo .. (hi - 1)

\* s.rfind(c): 0-based index of the last occurrence, -1 when absent
rfind(s, c) ==
    LET occ == {i \in 1..Len(s) : s[i] = c}
    IN  IF occ = {} THEN -1 ELSE SetMax(occ) - 1

\* s.strip()
strip(s) ==
    LET keep == {i \in 1..Len(s) : s[i] \notin Whitespace}
    IN  IF keep = {} THEN <<>> ELSE SubSeq(s, SetMin(keep), SetMax(keep))

-----------------------------------------------------------------------------
(* The window splitter *)

CutEndWide(t, st, cs) == st + cs + 1

\* the value of `end` after the boundary snap of one loop iteration
CutEnd(t, st, cs) ==
    LET end         == st + cs
        chunk       == PySlice(t, st, end)
        last_period == rfind(chunk, ".")
        last_comma  == rfind(chunk, ",")
    IN  IF end < Len(t)
        THEN IF last_period > Len(chunk) - SnapSpan THEN st + last_period + 1
             ELSE IF last_comma > Len(chunk) - SnapSpan THEN st + last_comma + 1
             ELSE end
        ELSE end

NextStartSkip(end, ov) == end - ov + 1

\* "start = end - chunk_overlap"
NextStart(end, ov) == end - ov

\* entry of the splitter: the short-text return, or the first loop test
SplitCall ==
    /\ pc = "call"
    /\ IF Len(text) <= chunk_size
       THEN /\ chunks' = <<text>>
            /\ spans' = <<<<0, Len(text)>>>>
            /\ pc' = "done"
       ELSE /\ chunks' = <<>>
            /\ spans' = <<>>
            /\ pc' = "loop"
    /\ start' = 0
    /\ UNCHANGED <<text, chunk_size, chunk_overlap>>
    /\ UNCHANGED chunkVars
    /\ UNCHANGED retrVars
    /\ UNCHANGED hybVars
    /\ UNCHANGED normVars
    /\ UNCHANGED concVars

\* one iteration of "while start < len(text)"
SplitStep ==
    /\ pc = "loop"
    /\ Len(chunks) < MaxWindows
    /\ LET end == CutEnd(text, start, chunk_size)
           nxt == NextStart(end, chunk_overlap)
       IN  /\ chunks' = Append(chunks, strip(PySlice(text, start, end)))
           /\ spans' = Append(spans, <<start, end>>)
           /\ start' = nxt
           /\ pc' = IF nxt >= Len(text) THEN "done" ELSE "loop"
    /\ UNCHANGED <<text, chunk_size, chunk_overlap>>
    /\ UNCHANGED chunkVars
    /\ UNCHANGED retrVars
    /\ UNCHANGED hybVars
    /\ UNCHANGED normVars
    /\ UNCHANGED concVars

\* `chunks` cannot grow any further: the append raises MemoryError, which
\* nothing in the splitter catches
SplitExhaust ==
    /\ pc = "loop"
    /\ Len(chunks) >= MaxWindows
    /\ pc' = "memory_error"
    /\ UNCHANGED <<text, chunk_size, chunk_overlap, start, chunks, spans>>
    /\ UNCHANGED chunkVars
    /\ UNCHANGED retrVars
    /\ UNCHANGED hybVars
    /\ UNCHANGED normVars
    /\ UNCHANGED concVars

-----------------------------------------------------------------------------
(* Inputs of the splitter *)

Alphabet == {"a", ".", ",", " "}

SeqsUpTo(S, n) == UNION {[1..m -> S] : m \in 0..n}

ShortTexts == SeqsUpTo(Alphabet, MaxShortLen)

ScenarioText == <<"a", "b", "c", "d", "e", "f", "g", "h", "i", "j">>

Fill(n) == [i \in 1..n |-> "a"]
Marks == {<<>>, <<".">>, <<",">>, <<" ">>}
LongTexts ==
    {Fill(p) \o m1 \o Fill(q) \o m2 \o Fill(r) :
        p \in {0, 20, 21}, m1 \in Marks, q \in {0, 60, 100},
        m2 \in Marks, r \in {1, 80, 130}}

SmallSizes == 1..MaxSmallChunk
LargeSizes == {99, 100, 120}
SmallOverlaps == 0..MaxSmallChunk
LargeOverlaps == {0, 10, 30, 120}

SplitInit ==
    /\ pc = "call"
    /\ \/ /\ text \in ShortTexts \cup {ScenarioText}
          /\ chunk_size \in SmallSizes
          /\ chunk_overlap \in SmallOverlaps
       \/ /\ text \in LongTexts
          /\ chunk_size \in LargeSizes
          /\ chunk_overlap \in LargeOverlaps
    /\ start = 0
    /\ chunks = <<>>
    /\ spans = <<>>
    /\ ChunkQuiet
    /\ RetrQuiet
    /\ HybQuiet
    /\ NormQuiet
    /\ ConcQuiet

SplitNext == SplitCall \/ SplitStep \/ SplitExhaust

SplitSpec == SplitInit /\ [][SplitNext]_vars

\* The splitter runs whenever it can take a step.  Termination is checked on
\* the short texts up to MaxLiveLen and the scenario text.
SplitLiveInit ==
    /\ SplitInit
    /\ Len(text) <= MaxLiveLen \/ text = ScenarioText
    /\ chunk_size \in SmallSizes

FairSplitSpec == SplitLiveInit /\ [][SplitNext]_vars /\ WF_vars(SplitNext)

-----------------------------------------------------------------------------
(* Normalizer *)

NULL == <<"NaN">>                    \* None / NaN, a value that is no text

UpperLetters ==
    <<"A", "B", "C", "D", "E", "F", "G", "H", "I", "J", "K", "L", "M",
      "N", "O", "P", "Q", "R", "S", "T", "U", "V", "W", "X", "Y", "Z">>
LowerLetters ==
    <<"a", "b", "c", "d", "e", "f", "g", "h", "i", "j", "k", "l", "m",
      "n", "o", "p", "q", "r", "s", "t", "u", "v", "w", "x", "y", "z">>

\* str.lower() on one character
Lower(c) ==
    IF \E i \in DOMAIN UpperLetters : UpperLetters[i] = c
    THEN LowerLetters[CHOOSE i \in DOMAIN UpperLetters : UpperLetters[i] = c]
    ELSE c

\* the characters the class [a-z0-9\s,.\-_] accepts
AllowedChars ==
    {LowerLetters[i] : i \in DOMAIN LowerLetters} \cup
    {"0", "1", "2", "3", "4", "5", "6", "7", "8", "9"} \cup
    {",", ".", "-", "_"} \cup Whitespace

RECURSIVE LStripWs(_)
LStripWs(s) ==
    IF s # <<>> /\ Head(s) \in Whitespace THEN LStripWs(Tail(s)) ELSE s

\* re.sub(r'\s+', ' ', s)
CollapseWs(s) ==
    LET first(i) == i = 1 \/ s[i - 1] \notin Whitespace     \* s[i] starts a run
        kept == SelectSeq([i \in 1..Len(s) |-> i],
                          LAMBDA i : s[i] \notin Whitespace \/ first(i))
    IN  [n \in 1..Len(kept) |->
            IF s[kept[n]] \in Whitespace THEN " " ELSE s[kept[n]]]

normalize_text_swapped(t) ==
    IF t = NULL THEN <<>>
    ELSE LET collapsed == CollapseWs([i \in 1..Len(t) |-> Lower(t[i])])
         IN  strip([i \in 1..Len(collapsed) |->
                       IF collapsed[i] \in AllowedChars THEN collapsed[i] ELSE " "])

\* normalize_text of TextChunker, of DataGlossaryChunker and of the upload module
normalize_text(t) ==
    IF t = NULL THEN <<>>
    ELSE LET lowered == [i \in 1..Len(t) |-> Lower(t[i])]
             cleaned == [i \in 1..Len(t) |->
                            IF lowered[i] \in AllowedChars THEN lowered[i] ELSE " "]
         IN  strip(CollapseWs(cleaned))

\* normalize_text(text) called on its own, and once more on its result
NormalizeCall ==
    /\ npc = "call"
    /\ norm_out' = normalize_text(norm_in)
    /\ norm_twice' = normalize_text(normalize_text(norm_in))
    /\ npc' = "done"
    /\ UNCHANGED norm_in
    /\ UNCHANGED splitVars
    /\ UNCHANGED chunkVars
    /\ UNCHANGED retrVars
    /\ UNCHANGED hybVars
    /\ UNCHANGED concVars

(* Inputs of the normalizer *)

MaxNormLen == 4     \* exhaustive raw texts up to this length

\* a letter outside a-z and A-Z: e with acute accent, written by its code point
EAcute == "U+00E9"

NormAlphabet == {"a", "B", "7", " ", "\t", ",", "-", "_", "!", EAcute}

ScenarioRaw ==
    <<"H", "e", "l", "l", "o", ",", " ", "W", "O", "R", "L", "D", "!", "!", " ", " ", "f", "o", "o", "_", "b", "a", "r">>

ScenarioNormalized ==
    <<"h", "e", "l", "l", "o", ",", " ", "w", "o", "r", "l", "d", " ", "f", "o", "o", "_", "b", "a", "r">>

NormInit ==
    /\ norm_in \in {NULL, ScenarioRaw} \cup SeqsUpTo(NormAlphabet, MaxNormLen)
    /\ norm_out = <<>> /\ norm_twice = <<>> /\ npc = "call"
    /\ SplitQuiet
    /\ ChunkQuiet
    /\ RetrQuiet
    /\ HybQuiet
    /\ ConcQuiet

NormNext == NormalizeCall

NormSpec == NormInit /\ [][NormNext]_vars

-----------------------------------------------------------------------------
(* Chunk assemblers *)

ParaMinLen == 10            \* split_by_paragraph keeps len(normalized) > 10
UploadMinLen == 20          \* chunk_text_data skips len(para.strip()) < 20
DefaultChunkSize == 512
DefaultChunkOverlap == 50

\* s.split(sep)
RECURSIVE PySplit(_, _)
PySplit(s, sep) ==
    LET hits == {i \in 1..(Len(s) - Len(sep) + 1) : SubSeq(s, i, i + Len(sep) - 1) = sep}
    IN  IF hits = {} THEN <<s>>
        ELSE LET i == SetMin(hits)
             IN  <<SubSeq(s, 1, i - 1)>> \o PySplit(SubSeq(s, i + Len(sep), Len(s)), sep)

Columns == << <<"c">>, <<"d">> >>        \* df.columns
TextColumns(m) == IF m = "row" THEN {<<"c">>} ELSE {<<"c">>, <<"d">>}
FileName == <<"f">>

\* the text built from one row: "<col>: <value>\n" per non-null text column
RECURSIVE RowTextFrom(_, _, _)
RowTextFrom(row, m, j) ==
    IF j > Len(Columns) THEN <<>>
    ELSE (IF row[j] # NULL /\ Columns[j] \in TextColumns(m)
          THEN Columns[j] \o <<":", " ">> \o row[j] \o <<"\n">>
          ELSE <<>>) \o RowTextFrom(row, m, j + 1)

RowText(row, m) == RowTextFrom(row, m, 1)

\* the raw text of a unit and its normalization
UnitRaw(m, u) == IF m \in {"row", "uu_df"} THEN RowText(u, m) ELSE u

KeepUnitAlways(m, raw, norm) == TRUE

KeepUnitFromTen(m, raw, norm) ==
    CASE m = "para"    -> norm # <<>> /\ Len(norm) >= ParaMinLen
      [] m = "uu_text" -> ~(Len(strip(raw)) < UploadMinLen) /\ norm # <<>>
      [] OTHER         -> norm # <<>>

\* the tests that decide whether a unit is chunked at all
KeepUnit(m, raw, norm) ==
    CASE m = "para"    -> norm # <<>> /\ Len(norm) > ParaMinLen
      [] m = "uu_text" -> ~(Len(strip(raw)) < UploadMinLen) /\ norm # <<>>
      [] OTHER         -> norm # <<>>

DigitChars == <<"0", "1", "2", "3", "4", "5", "6", "7", "8", "9">>

\* str(n) for n >= 0
RECURSIVE ToStr(_)
ToStr(n) ==
    IF n < 10 THEN <<DigitChars[n + 1]>>
    ELSE ToStr(n \div 10) \o <<DigitChars[(n % 10) + 1]>>

ChunkTag == <<"_", "c", "h", "u", "n", "k", "_">>

ChunkIdOfUnit(m, idx, ci) ==
    CASE m = "row"     -> <<"r", "o", "w", "_">> \o ToStr(idx)
      [] m = "para"    -> <<"p", "a", "r", "a", "_">> \o ToStr(idx)
      [] m = "uu_text" -> FileName \o <<"_", "p", "a", "r", "a", "_">> \o ToStr(idx)
      [] OTHER         -> FileName \o <<"_", "r", "o", "w", "_">> \o ToStr(idx)

\* the f-strings that build chunk_id
ChunkId(m, idx, ci) ==
    CASE m = "row"     -> <<"r", "o", "w", "_">> \o ToStr(idx) \o ChunkTag \o ToStr(ci)
      [] m = "para"    -> <<"p", "a", "r", "a", "_">> \o ToStr(idx) \o ChunkTag \o ToStr(ci)
      [] m = "uu_text" -> FileName \o <<"_", "p", "a", "r", "a", "_">> \o ToStr(idx)
                              \o ChunkTag \o ToStr(ci)
      [] OTHER         -> FileName \o <<"_", "r", "o", "w", "_">> \o ToStr(idx)
                              \o ChunkTag \o ToStr(ci)

\* the chunk records appended for the windows ws of unit idx; n is the number
\* of chunks appended before (chunk_text_data numbers chunk_index globally)
ChunkRecords(m, idx, ws, n) ==
    [i \in 1..Len(ws) |->
        [chunk_id     |-> ChunkId(m, idx, i - 1),
         unit_index   |-> idx,
         chunk_index  |-> IF m = "uu_text" THEN n + i - 1 ELSE i - 1,
         text         |-> ws[i],
         chunk_length |-> Len(ws[i]),
         token_count  |-> Len(ws[i]) \div 4]]

\* entry of an assembler: the list it iterates over
ChunkCall ==
    /\ cpc = "call"
    /\ units' = CASE mode = "para"    -> PySplit(doc, <<"\n">>)
                  [] mode = "uu_text" -> PySplit(doc, <<"\n", "\n">>)
                  [] OTHER            -> doc
    /\ unit_idx' = 0
    /\ out' = <<>>
    /\ cpc' = "next"
    /\ UNCHANGED <<mode, doc>>
    /\ UNCHANGED splitVars
    /\ UNCHANGED retrVars
    /\ UNCHANGED hybVars
    /\ UNCHANGED normVars
    /\ UNCHANGED concVars

\* head of one iteration of the unit loop: normalize, test, call the splitter;
\* or the return when the units are exhausted
ChunkUnit ==
    /\ cpc = "next"
    /\ IF unit_idx >= Len(units)
       THEN /\ cpc' = "end"
            /\ UNCHANGED <<unit_idx, text, pc>>
       ELSE LET raw  == UnitRaw(mode, units[unit_idx + 1])
                norm == normalize_text(raw)
            IN  IF KeepUnit(mode, raw, norm)
                THEN /\ text' = norm
                     /\ pc' = "call"
                     /\ cpc' = "split"
                     /\ UNCHANGED unit_idx
                ELSE /\ unit_idx' = unit_idx + 1
                     /\ UNCHANGED <<cpc, text, pc>>
    /\ UNCHANGED <<mode, doc, units, out>>
    /\ UNCHANGED <<chunk_size, chunk_overlap, start, chunks, spans>>
    /\ UNCHANGED retrVars
    /\ UNCHANGED hybVars
    /\ UNCHANGED normVars
    /\ UNCHANGED concVars

\* the splitter returned: one chunk record per window
ChunkCollect ==
    /\ cpc = "split"
    /\ pc = "done"
    /\ out' = out \o ChunkRecords(mode, unit_idx, chunks, Len(out))
    /\ unit_idx' = unit_idx + 1
    /\ cpc' = "next"
    /\ pc' = "idle"
    /\ UNCHANGED <<mode, doc, units>>
    /\ UNCHANGED <<text, chunk_size, chunk_overlap, start, chunks, spans>>
    /\ UNCHANGED retrVars
    /\ UNCHANGED hybVars
    /\ UNCHANGED normVars
    /\ UNCHANGED concVars

\* the splitter raised: the assembler does not catch it
ChunkAbort ==
    /\ cpc = "split"
    /\ pc = "memory_error"
    /\ cpc' = "error"
    /\ UNCHANGED <<mode, doc, units, unit_idx, out>>
    /\ UNCHANGED splitVars
    /\ UNCHANGED retrVars
    /\ UNCHANGED hybVars
    /\ UNCHANGED normVars
    /\ UNCHANGED concVars

(* Inputs of the assemblers *)

MaxTailLen == 1     \* free characters after the fixed head of a paragraph
MaxCellLen == 2     \* characters of a text cell

RawAlphabet == {"a", "A", ".", " ", "!", "\n"}

RECURSIVE Rep(_, _)
Rep(b, n) == IF n = 0 THEN <<>> ELSE b \o Rep(b, n - 1)

ParaHeads ==
    {<<>>, Rep(<<"a", ".">>, 5), Rep(<<"a", " ">>, 5), Rep(<<"a", ".">>, 10),
     Rep(<<"!">>, 20), Fill(9), Fill(19)}

FirstParas == {h \o t : h \in ParaHeads, t \in SeqsUpTo(RawAlphabet, MaxTailLen)}
MoreParas == {<<>>, <<"a", "b">>, Rep(<<"a", ".">>, 6), Rep(<<"a", ".">>, 10)}

Docs(sep) == FirstParas \cup {p \o sep \o q : p \in FirstParas, q \in MoreParas}

LongDocs ==
    {Fill(21) \o m1 \o Fill(q) \o m2 \o Fill(80) :
        m1 \in Marks, q \in {60, 100}, m2 \in Marks}

Cells == {NULL} \cup SeqsUpTo(RawAlphabet \ {"\n"}, MaxCellLen)
FirstRows == {<<c, d>> : c \in Cells, d \in {NULL, <<"a", ".">>}}
MoreRows == {<<NULL, NULL>>, <<<<"a", ".">>, NULL>>, <<<<"a", ".", "a", ".">>, <<"a">>>>}

Frames == {<<r>> : r \in FirstRows} \cup {<<r, q>> : r \in FirstRows, q \in MoreRows}

ChunkConfigs ==
    {<<cs, ov>> : cs \in SmallSizes, ov \in 0..(MaxSmallChunk - 1)}
        \cup {<<DefaultChunkSize, DefaultChunkOverlap>>}

ChunkInit ==
    /\ cpc = "call"
    /\ \/ /\ mode \in {"row", "para", "uu_text", "uu_df"}
          /\ doc \in CASE mode = "para"    -> Docs(<<"\n">>)
                       [] mode = "uu_text" -> Docs(<<"\n", "\n">>)
                       [] OTHER            -> Frames
          /\ \E c \in ChunkConfigs : chunk_size = c[1] /\ chunk_overlap = c[2]
       \/ /\ mode \in {"para", "uu_text"}
          /\ doc \in LongDocs
          /\ chunk_size \in LargeSizes
          /\ chunk_overlap \in LargeOverlaps
    /\ units = <<>> /\ unit_idx = 0 /\ out = <<>>
    /\ pc = "idle" /\ text = <<>> /\ start = 0 /\ chunks = <<>> /\ spans = <<>>
    /\ RetrQuiet
    /\ HybQuiet
    /\ NormQuiet
    /\ ConcQuiet

ChunkNext == ChunkCall \/ ChunkUnit \/ ChunkCollect \/ ChunkAbort
                 \/ SplitCall \/ SplitStep \/ SplitExhaust

ChunkSpec == ChunkInit /\ [][ChunkNext]_vars

-----------------------------------------------------------------------------
(* Vector store wrapper (QdrantVectorStore) *)

MaxHits == 4            \* points in the collection
MaxK == 2               \* values of top_k
DefaultMinScore == 5    \* MIN_SIMILARITY_SCORE = 0.5
LowThreshold == 2       \* the lowered min_score of the fallback ladder (0.2)

NoThreshold == 0 - 1    \* score_threshold=None

ScoreLevels == {1, 3, 5, 8}

Take(s, n) == SubSeq(s, 1, Min(n, Len(s)))

\* the application-level chunk_id the chunker gave chunk c
AppId(c) == <<"chunk", c>>

\* the storage-level id of a point: uuid5 of the application-level chunk id
Uuid(custom_id) == <<"uuid5", custom_id>>

\* the point of chunk c as the index scores it for the query; its payload is
\* the chunk's fields and the original id
Hit(c, sc) ==
    [id |-> Uuid(AppId(c)), score |-> sc,
     payload |-> [text |-> <<"text", c>>, chunk_id |-> AppId(c),
                  original_id |-> AppId(c)]]

\* QdrantClient.query_points: the best `limit` points whose score reaches the
\* threshold, best first
QdrantQuery(idx, limit, thr) ==
    Take(SelectSeq(idx, LAMBDA h : thr = NoThreshold \/ h.score >= thr), limit)

StoreFormatReversed(hits) ==
    [i \in 1..Len(hits) |->
        [id       |-> hits[Len(hits) + 1 - i].id,
         score    |-> hits[Len(hits) + 1 - i].score,
         text     |-> hits[Len(hits) + 1 - i].payload.text,
         metadata |-> hits[Len(hits) + 1 - i].payload]]

\* "Format results" loop of QdrantVectorStore.search
StoreFormat(hits) ==
    [i \in 1..Len(hits) |->
        [id       |-> hits[i].id,
         score    |-> hits[i].score,
         text     |-> hits[i].payload.text,
         metadata |-> hits[i].payload]]

\* QdrantVectorStore.search; ok = FALSE when the client call raises, which
\* the wrapper turns into an empty list
StoreSearch(idx, limit, thr, ok) ==
    IF ok THEN StoreFormat(QdrantQuery(idx, limit, thr)) ELSE <<>>

\* QdrantVectorStore.get_collection_info().get('points_count', 0); the
\* wrapper returns {} when the client call raises
PointsCount(idx, ok) == IF ok THEN Len(idx) ELSE 0

-----------------------------------------------------------------------------
(* Retriever.retrieve *)

IsEmptyCollectionNever(vc) == FALSE

\* "if vector_count == 0"
IsEmptyCollection(vc) == vc = 0

FilterOnlyThreshold(all, ms, kk) ==
    SelectSeq(all, LAMBDA r : r.score >= ms)

\* the client-side filter over the diagnostic hits, with its "return top
\* results anyway" branch
FilteredResults(all, ms, kk) ==
    IF all # <<>>
    THEN LET filtered == SelectSeq(all, LAMBDA r : r.score >= ms)
         IN  IF Len(filtered) = 0 /\ Len(all) > 0 THEN Take(all, kk) ELSE filtered
    ELSE <<>>

PrimaryThresholdNone(ms) == NoThreshold

\* the score_threshold argument of the primary search
PrimaryThreshold(ms) == ms

\* the answer of a thresholded search whose index-side candidate set or
\* threshold diverges from the client computation: its last `lost` hits are
\* missing
Diverge(hits, lost) == Take(hits, Len(hits) - lost)

\* how many hits the primary search can miss and still answer
Losses(hits) == IF Len(hits) >= 2 THEN {0, 1} ELSE {0}

SubstituteFewer(primary, filtered, kk) ==
    IF Len(primary) < Min(kk, Len(filtered)) THEN Take(filtered, kk) ELSE primary

\* "if not search_results and filtered_results"
Substitute(primary, filtered, kk) ==
    IF primary = <<>> /\ filtered # <<>> THEN Take(filtered, kk) ELSE primary

\* the result dictionaries built from the hits
FormatResults(hits) ==
    [i \in 1..Len(hits) |->
        [chunk_id |-> hits[i].id,
         text     |-> hits[i].text,
         metadata |-> [chunk_id    |-> hits[i].metadata.chunk_id,
                       original_id |-> hits[i].metadata.original_id],
         score    |-> hits[i].score]]

CaughtOnlyValueError(e) == e = "ValueError"

\* "except Exception as e" of retrieve()
Caught(e) == TRUE

\* retrieve(query, top_k): k and the fresh frame of the call
RetrieveCall ==
    /\ rpc \in {"idle", "returned"}
    /\ \E arg \in {Unset} \cup (1..MaxK) :
          k' = IF arg # Unset THEN arg ELSE top_k
    /\ vector_count' = Unset
    /\ query_embedding' = <<>>
    /\ search_results_all' = <<>>
    /\ filtered_results' = <<>>
    /\ search_results' = <<>>
    /\ results' = <<>>
    /\ pending' = "return"
    /\ primary_hits' = <<>>
    /\ failed' = {}
    /\ embed_calls' = 0
    /\ search_calls' = 0
    /\ rpc' = "open"
    /\ UNCHANGED <<index, min_score, top_k, client, open_handles>>
    /\ UNCHANGED splitVars
    /\ UNCHANGED chunkVars
    /\ UNCHANGED hybVars
    /\ UNCHANGED normVars
    /\ UNCHANGED concVars

\* self.client = get_qdrant_client(...): a store handle, or the constructor
\* raises (bad mode, locked local storage)
OpenClient ==
    /\ rpc = "open"
    /\ \/ /\ client' = "store"
          /\ open_handles' = open_handles + 1
          /\ rpc' = "info"
          /\ UNCHANGED <<failed, pending, results>>
       \/ \E e \in {"ValueError", "RuntimeError"} :
             /\ failed' = failed \cup {"open"}
             /\ pending' = IF Caught(e) THEN "return" ELSE "raise"
             /\ results' = <<>>
             /\ rpc' = "finally"
             /\ UNCHANGED <<client, open_handles>>
    /\ UNCHANGED <<index, min_score, top_k, k, vector_count, query_embedding,
                   search_results_all, filtered_results, search_results,
                   primary_hits, embed_calls, search_calls>>
    /\ UNCHANGED splitVars
    /\ UNCHANGED chunkVars
    /\ UNCHANGED hybVars
    /\ UNCHANGED normVars
    /\ UNCHANGED concVars

\* the collection check
GetInfo ==
    /\ rpc = "info"
    /\ \E ok \in BOOLEAN :
          /\ vector_count' = PointsCount(index, ok)
          /\ failed' = IF ok THEN failed ELSE failed \cup {"info"}
          /\ IF IsEmptyCollection(PointsCount(index, ok))
             THEN results' = <<>> /\ rpc' = "finally"
             ELSE results' = results /\ rpc' = "embed"
    /\ UNCHANGED <<index, min_score, top_k, client, k, query_embedding,
                   search_results_all, filtered_results, search_results,
                   pending, primary_hits, embed_calls, search_calls, open_handles>>
    /\ UNCHANGED splitVars
    /\ UNCHANGED chunkVars
    /\ UNCHANGED hybVars
    /\ UNCHANGED normVars
    /\ UNCHANGED concVars

\* query_embedding = self._get_query_embedding(query); generate_embedding
\* returns [] when the model raises
EmbedQuery ==
    /\ rpc = "embed"
    /\ embed_calls' = embed_calls + 1
    /\ \E ok \in BOOLEAN :
          /\ query_embedding' = IF ok THEN <<1, 0>> ELSE <<>>
          /\ failed' = IF ok THEN failed ELSE failed \cup {"embed"}
          /\ IF ~ok
             THEN results' = <<>> /\ rpc' = "finally"
             ELSE results' = results /\ rpc' = "diag"
    /\ UNCHANGED <<index, min_score, top_k, client, k, vector_count,
                   search_results_all, filtered_results, search_results,
                   pending, primary_hits, search_calls, open_handles>>
    /\ UNCHANGED splitVars
    /\ UNCHANGED chunkVars
    /\ UNCHANGED hybVars
    /\ UNCHANGED normVars
    /\ UNCHANGED concVars

\* the diagnostic search without threshold and the client-side filter
DiagSearch ==
    /\ rpc = "diag"
    /\ search_calls' = search_calls + 1
    /\ \E ok \in BOOLEAN :
          LET all == StoreSearch(index, k * 2, NoThreshold, ok)
          IN  /\ search_results_all' = all
              /\ filtered_results' = FilteredResults(all, min_score, k)
              /\ failed' = IF ok THEN failed ELSE failed \cup {"diag"}
    /\ rpc' = "primary"
    /\ UNCHANGED <<index, min_score, top_k, client, k, vector_count, query_embedding,
                   search_results, results, pending, primary_hits, embed_calls,
                   open_handles>>
    /\ UNCHANGED splitVars
    /\ UNCHANGED chunkVars
    /\ UNCHANGED hybVars
    /\ UNCHANGED normVars
    /\ UNCHANGED concVars

\* the search with threshold, the substitution and the result formatting
PrimarySearch ==
    /\ rpc = "primary"
    /\ search_calls' = search_calls + 1
    /\ \E ok \in BOOLEAN :
          \E lost \in Losses(StoreSearch(index, k, PrimaryThreshold(min_score), ok)) :
          LET hits == Diverge(StoreSearch(index, k, PrimaryThreshold(min_score), ok),
                              lost)
              used == Substitute(hits, filtered_results, k)
          IN  /\ primary_hits' = hits
              /\ search_results' = used
              /\ results' = FormatResults(used)
              /\ failed' = IF ok THEN failed ELSE failed \cup {"primary"}
    /\ rpc' = "finally"
    /\ UNCHANGED <<index, min_score, top_k, client, k, vector_count, query_embedding,
                   search_results_all, filtered_results, pending, embed_calls,
                   open_handles>>
    /\ UNCHANGED splitVars
    /\ UNCHANGED chunkVars
    /\ UNCHANGED hybVars
    /\ UNCHANGED normVars
    /\ UNCHANGED concVars

HasClientNever(c) == FALSE

\* "if self.client:" of the finally block
HasClient(c) == c # "None"

\* finally: close and clear the client, then complete the return
Finally ==
    /\ rpc = "finally"
    /\ IF HasClient(client)
       THEN client' = "None" /\ open_handles' = open_handles - 1
       ELSE UNCHANGED <<client, open_handles>>
    /\ rpc' = IF pending = "raise" THEN "raised" ELSE "returned"
    /\ UNCHANGED <<index, min_score, top_k, k, vector_count, query_embedding,
                   search_results_all, filtered_results, search_results, results,
                   pending, primary_hits, failed, embed_calls, search_calls>>
    /\ UNCHANGED splitVars
    /\ UNCHANGED chunkVars
    /\ UNCHANGED hybVars
    /\ UNCHANGED normVars
    /\ UNCHANGED concVars

(* Inputs of the retriever *)

IsRanked(h) == \A i \in 1..(Len(h) - 1) : h[i].score >= h[i + 1].score

RetrInit ==
    /\ index \in UNION {{[c \in 1..n |-> Hit(c, f[c])] :
                            f \in {g \in [1..n -> ScoreLevels] :
                                      \A i \in 1..(n - 1) : g[i] >= g[i + 1]}} :
                        n \in 0..MaxHits}
    /\ min_score \in {LowThreshold, DefaultMinScore}
    /\ top_k \in 1..MaxK
    /\ client = "None" /\ k = 0
    /\ vector_count = Unset /\ query_embedding = <<>>
    /\ search_results_all = <<>> /\ filtered_results = <<>> /\ search_results = <<>>
    /\ results = <<>> /\ pending = "return" /\ rpc = "idle"
    /\ primary_hits = <<>> /\ failed = {} /\ embed_calls = 0 /\ search_calls = 0
    /\ open_handles = 0
    /\ SplitQuiet
    /\ ChunkQuiet
    /\ HybQuiet
    /\ NormQuiet
    /\ ConcQuiet

RetrNext ==
    RetrieveCall \/ OpenClient \/ GetInfo \/ EmbedQuery \/ DiagSearch
        \/ PrimarySearch \/ Finally

RetrSpec == RetrInit /\ [][RetrNext]_vars

-----------------------------------------------------------------------------
(* Overlapping retrieve() calls on one shared Retriever *)

MaxSessions == 2        \* sessions that share the cached QueryEngine

NoHandle == 0           \* self.client is None

\* the sessions of the app; each runs its script, and so its retrieve(), in a
\* thread of its own, and session t's call opens handle t
Sessions == 1..MaxSessions

Touch(t, op, h) == [touched EXCEPT ![t] = @ \cup {<<op, h>>}]

\* a session calls engine.query, which calls retriever.retrieve
SessionCall(t) ==
    /\ tpc[t] = "idle"
    /\ tpc' = [tpc EXCEPT ![t] = "open"]
    /\ UNCHANGED <<shared_client, opened, handles, touched>>
    /\ UNCHANGED splitVars
    /\ UNCHANGED chunkVars
    /\ UNCHANGED retrVars
    /\ UNCHANGED hybVars
    /\ UNCHANGED normVars

\* self.client = get_qdrant_client(...): a new handle stored in the shared
\* attribute, or the constructor raises (local storage already locked by
\* another handle, bad mode) and "except Exception" returns []
SessionOpen(t) ==
    /\ tpc[t] = "open"
    /\ \/ /\ handles' = handles \cup {t}
          /\ opened' = [opened EXCEPT ![t] = t]
          /\ shared_client' = t
          /\ tpc' = [tpc EXCEPT ![t] = "info"]
       \/ /\ tpc' = [tpc EXCEPT ![t] = "ftest"]
          /\ UNCHANGED <<shared_client, opened, handles>>
    /\ UNCHANGED touched
    /\ UNCHANGED splitVars
    /\ UNCHANGED chunkVars
    /\ UNCHANGED retrVars
    /\ UNCHANGED hybVars
    /\ UNCHANGED normVars

\* self.client.get_collection_info() inside the inner try: on None the
\* AttributeError is caught and [] returned; a closed handle makes the wrapper
\* answer {}, so vector_count is 0 and [] is returned
SessionInfo(t) ==
    /\ tpc[t] = "info"
    /\ touched' = Touch(t, "use", shared_client)
    /\ tpc' = [tpc EXCEPT ![t] =
                  IF shared_client = NoHandle \/ shared_client \notin handles
                  THEN "ftest" ELSE "diag"]
    /\ UNCHANGED <<shared_client, opened, handles>>
    /\ UNCHANGED splitVars
    /\ UNCHANGED chunkVars
    /\ UNCHANGED retrVars
    /\ UNCHANGED hybVars
    /\ UNCHANGED normVars

\* the two self.client.search calls: on None the AttributeError is caught by
\* "except Exception"
SessionSearch(t) ==
    /\ tpc[t] \in {"diag", "primary"}
    /\ touched' = Touch(t, "use", shared_client)
    /\ tpc' = [tpc EXCEPT ![t] =
                  IF shared_client = NoHandle THEN "ftest"
                  ELSE IF tpc[t] = "diag" THEN "primary" ELSE "ftest"]
    /\ UNCHANGED <<shared_client, opened, handles>>
    /\ UNCHANGED splitVars
    /\ UNCHANGED chunkVars
    /\ UNCHANGED retrVars
    /\ UNCHANGED hybVars
    /\ UNCHANGED normVars

\* finally: "if self.client:"
SessionFinallyTest(t) ==
    /\ tpc[t] = "ftest"
    /\ tpc' = [tpc EXCEPT ![t] = IF shared_client # NoHandle THEN "fclose" ELSE "done"]
    /\ UNCHANGED <<shared_client, opened, handles, touched>>
    /\ UNCHANGED splitVars
    /\ UNCHANGED chunkVars
    /\ UNCHANGED retrVars
    /\ UNCHANGED hybVars
    /\ UNCHANGED normVars

\* finally: "self.client.close()"; on None the AttributeError leaves
\* retrieve()
SessionFinallyClose(t) ==
    /\ tpc[t] = "fclose"
    /\ IF shared_client = NoHandle
       THEN /\ tpc' = [tpc EXCEPT ![t] = "raised"]
            /\ UNCHANGED <<handles, touched>>
       ELSE /\ handles' = handles \ {shared_client}
            /\ touched' = Touch(t, "close", shared_client)
            /\ tpc' = [tpc EXCEPT ![t] = "fclear"]
    /\ UNCHANGED <<shared_client, opened>>
    /\ UNCHANGED splitVars
    /\ UNCHANGED chunkVars
    /\ UNCHANGED retrVars
    /\ UNCHANGED hybVars
    /\ UNCHANGED normVars

\* finally: "self.client = None"
SessionFinallyClear(t) ==
    /\ tpc[t] = "fclear"
    /\ touched' = Touch(t, "clear", shared_client)
    /\ shared_client' = NoHandle
    /\ tpc' = [tpc EXCEPT ![t] = "done"]
    /\ UNCHANGED <<opened, handles>>
    /\ UNCHANGED splitVars
    /\ UNCHANGED chunkVars
    /\ UNCHANGED retrVars
    /\ UNCHANGED hybVars
    /\ UNCHANGED normVars

SessionInit ==
    /\ shared_client = NoHandle
    /\ tpc = [t \in Sessions |-> "idle"]
    /\ opened = [t \in Sessions |-> NoHandle]
    /\ handles = {}
    /\ touched = [t \in Sessions |-> {}]
    /\ SplitQuiet
    /\ ChunkQuiet
    /\ RetrQuiet
    /\ HybQuiet
    /\ NormQuiet

SessionNext ==
    \E t \in Sessions :
        \/ SessionCall(t) \/ SessionOpen(t) \/ SessionInfo(t) \/ SessionSearch(t)
        \/ SessionFinallyTest(t) \/ SessionFinallyClose(t) \/ SessionFinallyClear(t)

SessionSpec == SessionInit /\ [][SessionNext]_vars

-----------------------------------------------------------------------------
(* QueryOptimizer *)

MaxLines == 4           \* lines of an LLM answer

\* the call of the chat completion raised, or its answer had no content
LLMFailure == <<"Exception">>

\* str.lower()
lower(s) == [i \in 1..Len(s) |-> Lower(s[i])]

\* "sub in s"
Contains(s, sub) ==
    \E i \in 1..(Len(s) - Len(sub) + 1) : SubSeq(s, i, i + Len(sub) - 1) = sub

\* s.split(): the maximal runs of characters that are not whitespace
RECURSIVE Words(_)
Words(s) ==
    LET t == LStripWs(s)
    IN  IF t = <<>> THEN <<>>
        ELSE LET ws == {i \in 1..Len(t) : t[i] \in Whitespace}
                 n  == IF ws = {} THEN Len(t) + 1 ELSE SetMin(ws)
             IN  <<SubSeq(t, 1, n - 1)>> \o Words(SubSeq(t, n, Len(t)))

\* sep.join(parts)
RECURSIVE Join(_, _)
Join(parts, sep) ==
    IF parts = <<>> THEN <<>>
    ELSE IF Len(parts) = 1 THEN parts[1]
    ELSE parts[1] \o sep \o Join(Tail(parts), sep)

Reverse(s) == [i \in 1..Len(s) |-> s[Len(s) + 1 - i]]

\* the distinct elements of a list, in the order of their first occurrence
RECURSIVE Distinct(_)
Distinct(s) ==
    IF s = <<>> THEN <<>>
    ELSE LET front == Distinct(SubSeq(s, 1, Len(s) - 1))
             last  == s[Len(s)]
         IN  IF \E i \in 1..Len(front) : front[i] = last
             THEN front ELSE Append(front, last)

\* iteration over set(items): the elements once each, in an order that the
\* string hash seed of the process fixes
SetOrder(items, seed) ==
    IF seed = 0 THEN Distinct(items) ELSE Reverse(Distinct(items))

db_terms ==
    <<<<"s", "c", "h", "e", "m", "a">>,
      <<"t", "a", "b", "l", "e">>,
      <<"c", "o", "l", "u", "m", "n">>,
      <<"d", "a", "t", "a", "b", "a", "s", "e">>,
      <<"p", "r", "i", "m", "a", "r", "y", " ", "k", "e", "y">>,
      <<"w", "a", "t", "e", "r", "m", "a", "r", "k">>,
      <<"e", "x", "t", "r", "a", "c", "t", "i", "o", "n">>,
      <<"i", "n", "c", "r", "e", "m", "e", "n", "t", "a", "l">>,
      <<"f", "u", "l", "l", " ", "l", "o", "a", "d">>,
      <<"s", "e", "r", "v", "e", "r">>,
      <<"s", "o", "u", "r", "c", "e">>>>

stop_words ==
    {<<"w", "h", "a", "t">>,
     <<"w", "h", "i", "c", "h">>,
     <<"s", "h", "o", "w">>,
     <<"m", "e">>,
     <<"a", "l", "l">>,
     <<"t", "h", "e">>,
     <<"a", "r", "e">>,
     <<"i", "s">>,
     <<"i", "n">>,
     <<"f", "o", "r">>}

\* QueryOptimizer._extract_keywords
extract_keywords(q, seed) ==
    LET query_lower == lower(q)
        terms == SelectSeq(db_terms, LAMBDA t : Contains(query_lower, t))
        words == SelectSeq(Words(query_lower),
                           LAMBDA w : w \notin stop_words /\ Len(w) > 2)
    IN  Join(SetOrder(terms \o words, seed), <<" ">>)

\* variations[:3]
FirstVariations(v) == SubSeq(v, 1, IF Len(v) < 3 THEN Len(v) ELSE 3)

expand_query_uncut(original_query, resp, seed) ==
    IF resp = LLMFailure
    THEN <<original_query, extract_keywords(original_query, seed)>>
    ELSE LET lines == PySplit(strip(resp), <<"\n">>)
         IN  <<original_query>> \o
                 SelectSeq([i \in 1..Len(lines) |-> strip(lines[i])], LAMBDA v : v # <<>>)

\* QueryOptimizer.expand_query; resp is the content of the LLM's answer
expand_query(original_query, resp, seed) ==
    IF resp = LLMFailure
    THEN <<original_query, extract_keywords(original_query, seed)>>
    ELSE LET variations_text == strip(resp)
             lines == PySplit(variations_text, <<"\n">>)
             variations == SelectSeq([i \in 1..Len(lines) |-> strip(lines[i])],
                                     LAMBDA v : v # <<>>)
         IN  <<original_query>> \o FirstVariations(variations)

-----------------------------------------------------------------------------
(* HybridRetriever *)

MaxPoints == 2          \* points in the collection the hybrid retriever queries

FoundNever(res) == FALSE

FoundTwo(res) == Len(res) >= 2

\* "if results:"
Found(res) == res # <<>>

\* result['query_variation'] = i
Tagged(r, i) ==
    [f \in DOMAIN r \cup {"query_variation"} |->
        IF f = "query_variation" THEN i ELSE r[f]]

RECURSIVE DedupAll(_, _, _)
DedupAll(acc, res, i) ==
    IF res = <<>> THEN acc
    ELSE DedupAll([all_results |-> Append(acc.all_results, Tagged(Head(res), i)),
                   seen_ids    |-> acc.seen_ids \cup {Head(res).chunk_id},
                   dropped     |-> acc.dropped],
                  Tail(res), i)

RECURSIVE DedupBest(_, _, _)
DedupBest(acc, res, i) ==
    IF res = <<>> THEN acc
    ELSE LET result == Head(res)
             better(e) == e.chunk_id = result.chunk_id /\ e.score < result.score
         IN  IF result.chunk_id \notin acc.seen_ids
             THEN DedupBest([all_results |-> Append(acc.all_results, Tagged(result, i)),
                             seen_ids    |-> acc.seen_ids \cup {result.chunk_id},
                             dropped     |-> acc.dropped],
                            Tail(res), i)
             ELSE DedupBest([all_results |->
                                 [n \in 1..Len(acc.all_results) |->
                                     IF better(acc.all_results[n]) THEN Tagged(result, i)
                                     ELSE acc.all_results[n]],
                             seen_ids    |-> acc.seen_ids,
                             dropped     |-> acc.dropped + 1],
                            Tail(res), i)

\* the "Deduplicate and add" loop over the results of variation i
RECURSIVE Dedup(_, _, _)
Dedup(acc, res, i) ==
    IF res = <<>> THEN acc
    ELSE LET result == Head(res)
             result_id == result.chunk_id
         IN  IF result_id \notin acc.seen_ids
             THEN Dedup([all_results |-> Append(acc.all_results, Tagged(result, i)),
                         seen_ids    |-> acc.seen_ids \cup {result_id},
                         dropped     |-> acc.dropped],
                        Tail(res), i)
             ELSE Dedup([acc EXCEPT !.dropped = @ + 1], Tail(res), i)

SortNone(s) == s

\* all_results.sort(key=lambda x: x['score'], reverse=True): a stable sort
RECURSIVE SortByScore(_)
SortByScore(s) ==
    IF s = <<>> THEN <<>>
    ELSE LET rest == SortByScore(Tail(s))
             n    == Cardinality({i \in 1..Len(rest) : rest[i].score > Head(s).score})
         IN  SubSeq(rest, 1, n) \o <<Head(s)>> \o SubSeq(rest, n + 1, Len(rest))

\* all_results[:top_k * 2]
ExpansionCut(sorted, tk) == Take(sorted, tk * 2)

\* a ranking of a collection of n points: the points in index order or in the
\* opposite order, the best at score 0.8, the second at 0.3, the rest at 0.1
\* ("spread"), or all of them at 0.1 ("low")
Ranking(n, profile, reversed) ==
    [i \in 1..n |->
        Hit(IF reversed THEN n + 1 - i ELSE i,
            IF profile = "spread" THEN (IF i = 1 THEN 8 ELSE IF i = 2 THEN 3 ELSE 1)
            ELSE 1)]

\* the rankings a query can produce over a collection of n points
RankingsOf(n) ==
    {Ranking(n, "spread", FALSE), Ranking(n, "spread", TRUE), Ranking(n, "low", FALSE)}

\* answers of the LLM to the hybrid retriever's expansion prompt: a failure,
\* no line, more lines than are used (the variation y in the runs whose
\* collection ranks it)
HybridResponses ==
    {LLMFailure, <<>>,
     IF <<"y">> \in DOMAIN rankings
     THEN <<"x", "\n", "y", "\n", "x", "\n", "x">>
     ELSE <<"x", "\n", "x", "\n", "x", "\n", "x">>}

HybridQueries == {<<"t", "a", "b", "l", "e", " ", "a">>}

StartRetrieveStoresK(q, arg) ==
    /\ IF q \in DOMAIN rankings
       THEN index' = rankings[q] /\ UNCHANGED rankings
       ELSE \E r \in RankingsOf(Len(rankings[query])) :
               index' = r /\ rankings' = (q :> r) @@ rankings
    /\ k' = IF arg # Unset THEN arg ELSE top_k
    /\ vector_count' = Unset
    /\ query_embedding' = <<>>
    /\ search_results_all' = <<>>
    /\ filtered_results' = <<>>
    /\ search_results' = <<>>
    /\ results' = <<>>
    /\ pending' = "return"
    /\ primary_hits' = <<>>
    /\ failed' = {}
    /\ embed_calls' = 0
    /\ search_calls' = 0
    /\ rpc' = "open"
    /\ top_k' = (IF arg # Unset THEN arg ELSE top_k)
    /\ UNCHANGED <<client, open_handles>>

\* base_retriever.retrieve(q, top_k=arg): the fresh frame of the call and the
\* ranking the collection has for q
StartRetrieve(q, arg) ==
    /\ IF q \in DOMAIN rankings
       THEN index' = rankings[q] /\ UNCHANGED rankings
       ELSE \E r \in RankingsOf(Len(rankings[query])) :
               index' = r /\ rankings' = (q :> r) @@ rankings
    /\ k' = IF arg # Unset THEN arg ELSE top_k
    /\ vector_count' = Unset
    /\ query_embedding' = <<>>
    /\ search_results_all' = <<>>
    /\ filtered_results' = <<>>
    /\ search_results' = <<>>
    /\ results' = <<>>
    /\ pending' = "return"
    /\ primary_hits' = <<>>
    /\ failed' = {}
    /\ embed_calls' = 0
    /\ search_calls' = 0
    /\ rpc' = "open"
    /\ UNCHANGED <<top_k, client, open_handles>>

\* the frame of a retrieve() that has ended is gone
PopFrame ==
    /\ index' = rankings[query]
    /\ k' = 0
    /\ vector_count' = Unset
    /\ query_embedding' = <<>>
    /\ search_results_all' = <<>>
    /\ filtered_results' = <<>>
    /\ search_results' = <<>>
    /\ results' = <<>>
    /\ pending' = "return"
    /\ primary_hits' = <<>>
    /\ failed' = {}
    /\ embed_calls' = 0
    /\ search_calls' = 0
    /\ rpc' = "idle"
    /\ UNCHANGED <<top_k, client, open_handles>>

\* no hybrid call and no retrieve() is running
HybridIdle == hpc \in {"idle", "returned", "raised"} /\ rpc = "idle"

\* retrieve_with_fallback(query, top_k): strategy 1
FallbackCall ==
    /\ HybridIdle
    /\ variant_results' = <<>>
    /\ \E tk \in 1..MaxK :
          /\ req_top_k' = tk
          /\ StartRetrieve(query, tk)
    /\ hcaller' = "fallback"
    /\ hpc' = "tier1"
    /\ use_expansion' = TRUE
    /\ response' = <<>> /\ queries' = <<>> /\ variation' = 0 /\ all_results' = <<>> /\ seen_ids' = {}
    /\ keywords' = <<>> /\ original_threshold' = 0
    /\ expansion_results' = <<>> /\ hybrid_results' = <<>>
    /\ tier_results' = <<>>
    /\ entry_min_score' = min_score
    /\ min_score_writes' = 0
    /\ dropped' = 0
    /\ UNCHANGED <<query, hash_seed, min_score>>
    /\ UNCHANGED splitVars
    /\ UNCHANGED chunkVars
    /\ UNCHANGED normVars
    /\ UNCHANGED concVars

\* strategy 1 returned
Tier1Return ==
    /\ hpc = "tier1" /\ rpc = "returned"
    /\ UNCHANGED variant_results
    /\ tier_results' = Append(tier_results, results)
    /\ IF Found(results)
       THEN hybrid_results' = results /\ hpc' = "returned"
       ELSE hybrid_results' = hybrid_results /\ hpc' = "expand"
    /\ UNCHANGED <<query, rankings, hash_seed, req_top_k, use_expansion, response, queries,
                   variation, all_results, seen_ids, keywords, original_threshold,
                   expansion_results, hcaller, entry_min_score, min_score_writes,
                   dropped>>
    /\ PopFrame
    /\ UNCHANGED min_score
    /\ UNCHANGED splitVars
    /\ UNCHANGED chunkVars
    /\ UNCHANGED normVars
    /\ UNCHANGED concVars

\* retrieve_with_expansion(query, top_k, use_expansion) called directly
ExpansionCall ==
    /\ HybridIdle
    /\ variant_results' = <<>>
    /\ req_top_k' \in 1..MaxK
    /\ use_expansion' \in BOOLEAN
    /\ hcaller' = "expansion"
    /\ hpc' = "expand"
    /\ response' = <<>> /\ queries' = <<>> /\ variation' = 0
    /\ all_results' = <<>> /\ seen_ids' = {}
    /\ keywords' = <<>> /\ original_threshold' = 0
    /\ expansion_results' = <<>> /\ hybrid_results' = <<>>
    /\ tier_results' = <<>>
    /\ entry_min_score' = min_score
    /\ min_score_writes' = 0
    /\ dropped' = 0
    /\ UNCHANGED <<query, rankings, hash_seed>>
    /\ UNCHANGED retrVars
    /\ UNCHANGED splitVars
    /\ UNCHANGED chunkVars
    /\ UNCHANGED normVars
    /\ UNCHANGED concVars

(* Inputs of the query optimizer *)

ResponseLines == {<<>>, <<" ">>, <<"x">>, <<" ", "y">>, <<"z", " ">>}

\* the answers of the LLM: up to MaxLines lines, or a failure
Responses ==
    {LLMFailure} \cup {Join(ls, <<"\n">>) : ls \in SeqsUpTo(ResponseLines, MaxLines)}

UserQueries ==
    {<<>>,
     <<"t", "h", "e">>,
     <<"t", "a", "b", "l", "e", " ", "a">>,
     <<"S", "h", "o", "w", " ", "m", "e", " ", "A", "L", "L", " ", "T", "a", "b", "l", "e", "s">>,
     <<"p", "r", "i", "m", "a", "r", "y", " ", "k", "e", "y", " ", "o", "f", " ", "t", "h", "e", " ", "s", "o", "u", "r", "c", "e">>,
     <<"w", "h", "a", "t", " ", "i", "s", " ", "i", "n", " ", "i", "t">>}

\* expand_query(original_query) called on its own
ExpandQueryCall ==
    /\ hcaller = "expand_query" /\ hpc = "call"
    /\ UNCHANGED variant_results
    /\ \E resp \in Responses :
          /\ response' = resp
          /\ queries' = expand_query(query, resp, hash_seed)
    /\ hpc' = "returned"
    /\ UNCHANGED <<query, rankings, hash_seed, req_top_k, use_expansion, variation,
                   all_results, seen_ids, keywords, original_threshold,
                   expansion_results, hybrid_results, hcaller, tier_results,
                   entry_min_score, min_score_writes, dropped>>
    /\ UNCHANGED retrVars
    /\ UNCHANGED splitVars
    /\ UNCHANGED chunkVars
    /\ UNCHANGED normVars
    /\ UNCHANGED concVars

ExpandInit ==
    /\ query \in UserQueries
    /\ hash_seed \in {0, 1}
    /\ hcaller = "expand_query" /\ hpc = "call"
    /\ rankings = <<>> /\ req_top_k = 0 /\ use_expansion = FALSE
    /\ response = <<>> /\ queries = <<>> /\ variation = 0
    /\ all_results = <<>> /\ seen_ids = {} /\ keywords = <<>>
    /\ original_threshold = 0 /\ expansion_results = <<>> /\ hybrid_results = <<>>
    /\ tier_results = <<>> /\ entry_min_score = 0 /\ min_score_writes = 0
    /\ dropped = 0 /\ variant_results = <<>>
    /\ SplitQuiet
    /\ ChunkQuiet
    /\ RetrQuiet
    /\ NormQuiet
    /\ ConcQuiet

ExpandNext == ExpandQueryCall

ExpandSpec == ExpandInit /\ [][ExpandNext]_vars

\* entry of retrieve_with_expansion: the query variations
ExpandQueries ==
    /\ hpc = "expand"
    /\ UNCHANGED variant_results
    /\ all_results' = <<>>
    /\ seen_ids' = {}
    /\ dropped' = 0
    /\ IF use_expansion
       THEN \E resp \in HybridResponses :
               /\ response' = resp
               /\ queries' = expand_query(query, resp, hash_seed)
       ELSE /\ response' = response
            /\ queries' = <<query>>
    /\ variation' = 1
    /\ hpc' = "loop"
    /\ UNCHANGED <<query, rankings, hash_seed, req_top_k, use_expansion, keywords,
                   original_threshold, expansion_results, hybrid_results, hcaller,
                   tier_results, entry_min_score, min_score_writes>>
    /\ UNCHANGED retrVars
    /\ UNCHANGED splitVars
    /\ UNCHANGED chunkVars
    /\ UNCHANGED normVars
    /\ UNCHANGED concVars

\* "for i, q in enumerate(queries, 1)": the retrieve() of the next variation
ExpansionLoop ==
    /\ hpc = "loop"
    /\ UNCHANGED variant_results
    /\ variation <= Len(queries)
    /\ StartRetrieve(queries[variation], req_top_k)
    /\ hpc' = "collect"
    /\ UNCHANGED <<query, hash_seed, req_top_k, use_expansion, response, queries,
                   variation, all_results, seen_ids, keywords, original_threshold,
                   expansion_results, hybrid_results, hcaller, tier_results,
                   entry_min_score, min_score_writes, dropped, min_score>>
    /\ UNCHANGED splitVars
    /\ UNCHANGED chunkVars
    /\ UNCHANGED normVars
    /\ UNCHANGED concVars

\* the loop body after retrieve() returned
ExpansionCollect ==
    /\ hpc = "collect" /\ rpc = "returned"
    /\ variant_results' = Append(variant_results, [q |-> queries[variation], res |-> results])
    /\ LET acc == Dedup([all_results |-> all_results, seen_ids |-> seen_ids,
                         dropped |-> dropped], results, variation)
       IN  /\ all_results' = acc.all_results
           /\ seen_ids' = acc.seen_ids
           /\ dropped' = acc.dropped
    /\ variation' = variation + 1
    /\ hpc' = "loop"
    /\ UNCHANGED <<query, rankings, hash_seed, req_top_k, use_expansion, response,
                   queries, keywords, original_threshold, expansion_results,
                   hybrid_results, hcaller, tier_results, entry_min_score,
                   min_score_writes>>
    /\ PopFrame
    /\ UNCHANGED min_score
    /\ UNCHANGED splitVars
    /\ UNCHANGED chunkVars
    /\ UNCHANGED normVars
    /\ UNCHANGED concVars

\* the loop is over: re-rank, cut, return; inside retrieve_with_fallback this
\* completes strategy 2
ExpansionReturn ==
    /\ hpc = "loop"
    /\ UNCHANGED variant_results
    /\ variation > Len(queries)
    /\ LET sorted == SortByScore(all_results)
           cut    == ExpansionCut(sorted, req_top_k)
       IN  /\ all_results' = sorted
           /\ expansion_results' = cut
           /\ IF hcaller = "expansion"
              THEN /\ hybrid_results' = cut
                   /\ hpc' = "returned"
                   /\ UNCHANGED tier_results
              ELSE /\ tier_results' = Append(tier_results, cut)
                   /\ IF Found(cut)
                      THEN hybrid_results' = cut /\ hpc' = "returned"
                      ELSE hybrid_results' = hybrid_results /\ hpc' = "tier3"
    /\ UNCHANGED <<query, rankings, hash_seed, req_top_k, use_expansion, response,
                   queries, variation, seen_ids, keywords, original_threshold,
                   hcaller, entry_min_score, min_score_writes, dropped>>
    /\ UNCHANGED retrVars
    /\ UNCHANGED splitVars
    /\ UNCHANGED chunkVars
    /\ UNCHANGED normVars
    /\ UNCHANGED concVars

\* strategy 3: the keywords alone
Tier3Call ==
    /\ hpc = "tier3"
    /\ UNCHANGED variant_results
    /\ LET kw == extract_keywords(query, hash_seed)
       IN  /\ keywords' = kw
           /\ StartRetrieve(kw, req_top_k)
    /\ hpc' = "tier3_wait"
    /\ UNCHANGED <<query, hash_seed, req_top_k, use_expansion, response, queries,
                   variation, all_results, seen_ids, original_threshold,
                   expansion_results, hybrid_results, hcaller, tier_results,
                   entry_min_score, min_score_writes, dropped, min_score>>
    /\ UNCHANGED splitVars
    /\ UNCHANGED chunkVars
    /\ UNCHANGED normVars
    /\ UNCHANGED concVars

Tier3Return ==
    /\ hpc = "tier3_wait" /\ rpc = "returned"
    /\ UNCHANGED variant_results
    /\ tier_results' = Append(tier_results, results)
    /\ IF Found(results)
       THEN hybrid_results' = results /\ hpc' = "returned"
       ELSE hybrid_results' = hybrid_results /\ hpc' = "tier4"
    /\ UNCHANGED <<query, rankings, hash_seed, req_top_k, use_expansion, response,
                   queries, variation, all_results, seen_ids, keywords,
                   original_threshold, expansion_results, hcaller, entry_min_score,
                   min_score_writes, dropped>>
    /\ PopFrame
    /\ UNCHANGED min_score
    /\ UNCHANGED splitVars
    /\ UNCHANGED chunkVars
    /\ UNCHANGED normVars
    /\ UNCHANGED concVars

\* strategy 4: save the threshold, lower it, retrieve twice as many
Tier4Call ==
    /\ hpc = "tier4"
    /\ UNCHANGED variant_results
    /\ original_threshold' = min_score
    /\ min_score' = LowThreshold
    /\ min_score_writes' = min_score_writes + 1
    /\ StartRetrieve(query, req_top_k * 2)
    /\ hpc' = "tier4_wait"
    /\ UNCHANGED <<query, hash_seed, req_top_k, use_expansion, response, queries,
                   variation, all_results, seen_ids, keywords, expansion_results,
                   hybrid_results, hcaller, tier_results, entry_min_score, dropped>>
    /\ UNCHANGED splitVars
    /\ UNCHANGED chunkVars
    /\ UNCHANGED normVars
    /\ UNCHANGED concVars

\* retrieve() returned: restore the threshold and return
Tier4Return ==
    /\ hpc = "tier4_wait" /\ rpc = "returned"
    /\ UNCHANGED variant_results
    /\ min_score' = original_threshold
    /\ min_score_writes' = min_score_writes + 1
    /\ tier_results' = Append(tier_results, results)
    /\ hybrid_results' = results
    /\ hpc' = "returned"
    /\ UNCHANGED <<query, rankings, hash_seed, req_top_k, use_expansion, response,
                   queries, variation, all_results, seen_ids, keywords,
                   original_threshold, expansion_results, hcaller, entry_min_score,
                   dropped>>
    /\ PopFrame
    /\ UNCHANGED splitVars
    /\ UNCHANGED chunkVars
    /\ UNCHANGED normVars
    /\ UNCHANGED concVars

HybridWaiting == hpc \in {"tier1", "collect", "tier3_wait", "tier4_wait"}

\* a KeyboardInterrupt or SystemExit arrives while retrieve() runs: it is no
\* Exception, so "except Exception" lets it pass; the finally block runs.
\* Taken while the handle is being opened and while the query is embedded.
Interrupt ==
    /\ HybridWaiting
    /\ rpc \in {"open", "embed"}
    /\ pending' = "raise"
    /\ failed' = failed \cup {"interrupt"}
    /\ rpc' = "finally"
    /\ UNCHANGED <<index, min_score, top_k, client, k, vector_count, query_embedding,
                   search_results_all, filtered_results, search_results, results,
                   primary_hits, embed_calls, search_calls, open_handles>>
    /\ UNCHANGED hybVars
    /\ UNCHANGED splitVars
    /\ UNCHANGED chunkVars
    /\ UNCHANGED normVars
    /\ UNCHANGED concVars

\* retrieve() raised: neither hybrid method has a handler, the exception
\* leaves the hybrid call
Propagate ==
    /\ HybridWaiting
    /\ UNCHANGED variant_results
    /\ rpc = "raised"
    /\ hpc' = "raised"
    /\ UNCHANGED <<query, rankings, hash_seed, req_top_k, use_expansion, response,
                   queries, variation, all_results, seen_ids, keywords,
                   original_threshold, expansion_results, hybrid_results, hcaller,
                   tier_results, entry_min_score, min_score_writes, dropped>>
    /\ PopFrame
    /\ UNCHANGED min_score
    /\ UNCHANGED splitVars
    /\ UNCHANGED chunkVars
    /\ UNCHANGED normVars
    /\ UNCHANGED concVars

(* Inputs of the hybrid retriever *)

\* a HybridRetriever over a Retriever whose MIN_SIMILARITY_SCORE is ms
HybridStart(ms) ==
    /\ query \in HybridQueries
    /\ \E n \in 0..MaxPoints : \E r \in RankingsOf(n) :
          rankings = (query :> r) /\ index = r
    /\ hash_seed = 0
    /\ min_score = ms
    /\ top_k = MaxK
    /\ req_top_k = 0 /\ use_expansion = FALSE /\ response = <<>> /\ queries = <<>>
    /\ variation = 0 /\ all_results = <<>> /\ seen_ids = {} /\ keywords = <<>>
    /\ original_threshold = 0 /\ expansion_results = <<>> /\ hybrid_results = <<>>
    /\ hcaller = "none" /\ hpc = "idle" /\ tier_results = <<>>
    /\ entry_min_score = 0 /\ min_score_writes = 0 /\ dropped = 0
    /\ variant_results = <<>>
    /\ client = "None" /\ k = 0
    /\ vector_count = Unset /\ query_embedding = <<>>
    /\ search_results_all = <<>> /\ filtered_results = <<>> /\ search_results = <<>>
    /\ results = <<>> /\ pending = "return" /\ rpc = "idle"
    /\ primary_hits = <<>> /\ failed = {} /\ embed_calls = 0 /\ search_calls = 0
    /\ open_handles = 0
    /\ SplitQuiet
    /\ ChunkQuiet
    /\ NormQuiet
    /\ ConcQuiet

HybridInit == HybridStart(DefaultMinScore)

\* the settings read MIN_SIMILARITY_SCORE from the environment: the default
\* 0.5, or a value below the floor of strategy 4
ConfiguredScores == {1, DefaultMinScore}

LadderInit == \E ms \in ConfiguredScores : HybridStart(ms)

MaxUnion == 3           \* points in the collection of the expansion runs

\* the spread ranking with the points in index order starting at the second
Rotated(n) ==
    [i \in 1..n |->
        Hit((i % n) + 1, IF i = 1 THEN 8 ELSE IF i = 2 THEN 3 ELSE 1)]

\* retrieve_with_expansion called directly on a collection of MaxUnion
\* points that the original query and the variations x and y rank
ExpansionInit ==
    /\ query \in HybridQueries
    /\ \E r, rx, ry \in RankingsOf(MaxUnion) \cup {Rotated(MaxUnion)} :
          /\ rankings = (query :> r) @@ (<<"x">> :> rx) @@ (<<"y">> :> ry)
          /\ index = r
    /\ hash_seed = 0
    /\ min_score = DefaultMinScore
    /\ top_k = MaxK
    /\ req_top_k = 0 /\ use_expansion = FALSE /\ response = <<>> /\ queries = <<>>
    /\ variation = 0 /\ all_results = <<>> /\ seen_ids = {} /\ keywords = <<>>
    /\ original_threshold = 0 /\ expansion_results = <<>> /\ hybrid_results = <<>>
    /\ hcaller = "none" /\ hpc = "idle" /\ tier_results = <<>>
    /\ entry_min_score = 0 /\ min_score_writes = 0 /\ dropped = 0
    /\ variant_results = <<>>
    /\ client = "None" /\ k = 0
    /\ vector_count = Unset /\ query_embedding = <<>>
    /\ search_results_all = <<>> /\ filtered_results = <<>> /\ search_results = <<>>
    /\ results = <<>> /\ pending = "return" /\ rpc = "idle"
    /\ primary_hits = <<>> /\ failed = {} /\ embed_calls = 0 /\ search_calls = 0
    /\ open_handles = 0
    /\ SplitQuiet
    /\ ChunkQuiet
    /\ NormQuiet
    /\ ConcQuiet

ExpansionNext ==
    ExpansionCall \/ ExpandQueries \/ ExpansionLoop \/ ExpansionCollect
        \/ ExpansionReturn \/ Interrupt \/ Propagate
        \/ OpenClient \/ GetInfo \/ EmbedQuery \/ DiagSearch \/ PrimarySearch
        \/ Finally

ExpansionSpec == ExpansionInit /\ [][ExpansionNext]_vars

HybridNext ==
    FallbackCall \/ Tier1Return \/ ExpansionCall \/ ExpandQueries \/ ExpansionLoop
        \/ ExpansionCollect \/ ExpansionReturn \/ Tier3Call \/ Tier3Return
        \/ Tier4Call \/ Tier4Return \/ Interrupt \/ Propagate
        \/ OpenClient \/ GetInfo \/ EmbedQuery \/ DiagSearch \/ PrimarySearch
        \/ Finally

HybridSpec == HybridInit /\ [][HybridNext]_vars

LadderSpec == LadderInit /\ [][HybridNext]_vars

-----------------------------------------------------------------------------
(* Properties of the splitter *)

ValidConfig == chunk_size > chunk_overlap /\ chunk_overlap >= 0

NoPunct(t) == \A i \in 1..Len(t) : t[i] \notin {".", ","}

IsNormalizedText(t) ==
    /\ strip(t) = t
    /\ \A i \in 1..(Len(t) - 1) : ~(t[i] \in Whitespace /\ t[i + 1] \in Whitespace)

IsPrefix(s, t) == Len(s) <= Len(t) /\ s = SubSeq(t, 1, Len(s))

\* A call that fills MaxWindows is a call that cannot return: `start` is
\* negative (it only decreases from there) or revisits an earlier value.
CapOnlyDivergent ==
    (pc \in {"loop", "memory_error"} /\ Len(chunks) = MaxWindows) =>
        (start < 0 \/ \E i \in 1..Len(spans) : spans[i][1] = start)

\* C1: for every text and every configuration with window_size > overlap >= 0
\* the splitter terminates: its loop reaches start >= len(text) and the call
\* returns its list of windows.
C1_Terminates == ValidConfig => <>(pc = "done")

ScenarioWindows ==
    << <<"a", "b", "c", "d">>, <<"d", "e", "f", "g">>, <<"g", "h", "i", "j">> >>

\* C2: "abcdefghij" with window_size 4 and overlap 1 yields exactly
\* abcd, defg, ghij; on text without periods or commas every window starts
\* window_size - overlap after the previous one, and no window is emitted
\* after one that reached the end of the text.
C2_RawEdgeWindows ==
    /\ (text = ScenarioText /\ chunk_size = 4 /\ chunk_overlap = 1) =>
          /\ IsPrefix(chunks, ScenarioWindows)
          /\ (pc = "done" => chunks = ScenarioWindows)
    /\ (NoPunct(text) /\ ValidConfig /\ Len(text) > chunk_size) =>
          \A i \in 1..Len(spans) :
              /\ spans[i][1] = (i - 1) * (chunk_size - chunk_overlap)
              /\ (i > 1 => spans[i - 1][2] < Len(text))

Covered ==
    UNION {PySliceIdx(Len(text), spans[i][1], spans[i][2]) : i \in 1..Len(spans)}

C5_FailFast ==
    (chunk_overlap >= chunk_size /\ Len(text) > chunk_size) =>
        (pc \notin {"loop", "done"} /\ chunks = <<>>)

\* the cut offset the boundary snap rule names for the window at st: just after
\* the last period if it lies within the window's final SnapSpan characters,
\* else just after the last comma if it does, else the raw edge
SnapRuleCut(t, st, cs) ==
    LET window      == PySlice(t, st, st + cs)
        last_period == rfind(window, ".")
        last_comma  == rfind(window, ",")
        InFinalSpan(p) == p >= 0 /\ p >= Len(window) - SnapSpan
    IN  IF InFinalSpan(last_period) THEN st + last_period + 1
        ELSE IF InFinalSpan(last_comma) THEN st + last_comma + 1
        ELSE st + cs

\* C23: every window whose raw right edge is before the end of the text is
\* cut where the boundary snap rule says; a window with neither a period nor
\* a comma is cut at the raw edge, for every window size.
C23_SnapRule ==
    \A i \in 1..Len(spans) :
        spans[i][1] + chunk_size < Len(text) =>
            /\ spans[i][2] = SnapRuleCut(text, spans[i][1], chunk_size)
            /\ NoPunct(PySlice(text, spans[i][1], spans[i][1] + chunk_size)) =>
                  spans[i][2] = spans[i][1] + chunk_size

\* C28: windows are emitted left to right without redundancy: the start
\* offsets of successive windows increase strictly, every window after the
\* first holds a character position at or beyond the cut end of the window
\* before it, and no window follows one that reached the end of the text.
C28_NoRedundantWindow ==
    ValidConfig =>
        \A i \in 2..Len(spans) :
            /\ spans[i][1] > spans[i - 1][1]
            /\ \E p \in PySliceIdx(Len(text), spans[i][1], spans[i][2]) :
                  p >= spans[i - 1][2]
            /\ spans[i - 1][2] < Len(text)

-----------------------------------------------------------------------------
(* Properties of the chunk assemblers *)

\* C4: no-empty-chunk.  For every input and every chunk_size > chunk_overlap
\* >= 0, no chunk built by split_by_row, split_by_paragraph,
\* chunk_dataframe_data or chunk_text_data has an empty text.
C4_NoEmptyChunk ==
    ValidConfig =>
        \A i \in 1..Len(out) : out[i].text # <<>> /\ out[i].chunk_length >= 1

\* a finished run that skipped a unit with empty normalized text and split
\* another unit into several windows
C4_Witness ==
    /\ cpc = "end" /\ ValidConfig
    /\ \E u \in 1..Len(units) : normalize_text(UnitRaw(mode, units[u])) = <<>>
    /\ \E i \in 1..Len(out) : out[i].chunk_index >= 1

\* the chunks built from the unit with index u (0-based)
ChunksOf(u) == {i \in 1..Len(out) : out[i].unit_index = u}

\* the length of the normalized text of unit u, and of its stripped raw text
NormLen(u) == Len(normalize_text(UnitRaw(mode, units[u + 1])))
RawLen(u) == Len(strip(UnitRaw(mode, units[u + 1])))

\* C18 as stated: in the result of a paragraph chunking run, a paragraph whose
\* normalized text has 10 or more characters has at least one chunk and a
\* paragraph with 9 or fewer has none.
C18_DropBelowTen ==
    (mode \in {"para", "uu_text"} /\ cpc = "end" /\ ValidConfig) =>
        \A u \in 0..(Len(units) - 1) :
            /\ NormLen(u) >= 10 => ChunksOf(u) # {}
            /\ NormLen(u) <= 9 => ChunksOf(u) = {}

\* C18 amended: once a paragraph chunking run is past a paragraph, that
\* paragraph has at least one chunk exactly if the code's test kept it:
\* split_by_paragraph keeps a paragraph whose normalized text has more than 10
\* characters, chunk_text_data one whose stripped raw text has at least 20
\* characters and whose normalized text is not empty.
C18_KeepRule ==
    mode \in {"para", "uu_text"} =>
        \A u \in 0..(unit_idx - 1) :
            ChunksOf(u) # {} <=>
                IF mode = "para" THEN NormLen(u) > ParaMinLen
                ELSE RawLen(u) >= UploadMinLen /\ NormLen(u) > 0

\* a finished split_by_paragraph run that dropped a paragraph of exactly 10
\* normalized characters and chunked a longer one
C18_Witness ==
    /\ mode = "para" /\ cpc = "end" /\ ValidConfig
    /\ \E u \in 0..(Len(units) - 1) : NormLen(u) = ParaMinLen /\ ChunksOf(u) = {}
    /\ \E u \in 0..(Len(units) - 1) : NormLen(u) > ParaMinLen /\ ChunksOf(u) # {}

\* a finished chunk_text_data run that chunked a paragraph with a short
\* normalized text and dropped one with a short raw text
C18_WitnessUpload ==
    /\ mode = "uu_text" /\ cpc = "end" /\ ValidConfig
    /\ \E u \in 0..(Len(units) - 1) : NormLen(u) <= 9 /\ ChunksOf(u) # {}
    /\ \E u \in 0..(Len(units) - 1) :
          NormLen(u) >= 10 /\ RawLen(u) < UploadMinLen /\ ChunksOf(u) = {}

\* C19: no two chunks built by one run of split_by_row, split_by_paragraph,
\* chunk_dataframe_data or chunk_text_data have the same chunk_id.
C19_UniqueIds ==
    \A i, j \in 1..Len(out) : i # j => out[i].chunk_id # out[j].chunk_id

\* a finished run with chunks of two units, one of them split into several
\* windows
C19_Witness ==
    /\ cpc = "end"
    /\ \E i, j \in 1..Len(out) : out[i].unit_index # out[j].unit_index
    /\ \E i, j \in 1..Len(out) : i # j /\ out[i].unit_index = out[j].unit_index

\* C20: for chunk_size > chunk_overlap >= 0, the text of every chunk built has
\* at most chunk_size characters.
C20_WithinChunkSize ==
    ValidConfig =>
        \A i \in 1..Len(out) :
            Len(out[i].text) <= chunk_size /\ out[i].chunk_length <= chunk_size

\* a finished run over a unit longer than the window, with a chunk that fills
\* the window
C20_Witness ==
    /\ cpc = "end" /\ ValidConfig
    /\ \E i, j \in 1..Len(out) :
          /\ i # j /\ out[i].unit_index = out[j].unit_index
          /\ Len(out[i].text) = chunk_size

-----------------------------------------------------------------------------
(* Properties of Retriever.retrieve *)

Passing(all, ms) == SelectSeq(all, LAMBDA r : r.score >= ms)

BothSearched == rpc = "returned" /\ search_calls = 2

\* C6 as stated: when the primary search returns nothing, retrieve returns
\* exactly the diagnostic hits with score >= min_score, truncated to k (so
\* nothing when every diagnostic hit is below min_score).
C6_OnlyPassingHits ==
    (BothSearched /\ primary_hits = <<>>) =>
        results = FormatResults(Take(Passing(search_results_all, min_score), k))

\* C6 as amended: when the primary search returns nothing, retrieve returns
\* the diagnostic hits with score >= min_score truncated to k if there are
\* any, and otherwise the first k diagnostic hits whatever their score; it
\* returns nothing only when the diagnostic search found nothing.
C6_Substitution ==
    (BothSearched /\ primary_hits = <<>>) =>
        LET passing == Passing(search_results_all, min_score)
        IN  results = FormatResults(
               Take(IF passing # <<>> THEN passing ELSE search_results_all, k))

\* the primary search found nothing, every diagnostic hit is below min_score,
\* and hits are returned
C6_Witness ==
    /\ BothSearched /\ primary_hits = <<>>
    /\ search_results_all # <<>>
    /\ Passing(search_results_all, min_score) = <<>>
    /\ results # <<>>

\* C7: threshold invariant.  When retrieve returns the hits of its primary
\* search (no substitution), every result has score >= min_score.
C7_Threshold ==
    (rpc = "returned" /\ primary_hits # <<>>) =>
        \A i \in 1..Len(results) : results[i].score >= min_score

\* primary hits are returned and the threshold, not k, cut the list
C7_Witness ==
    /\ rpc = "returned" /\ primary_hits # <<>>
    /\ Len(results) < Min(k, Len(index))

\* C8: rank invariant.  With an index that answers best-first, every list
\* retrieve returns is ordered by score, non-increasing, on the primary and
\* on the substitution path.
C8_Ranked ==
    (rpc = "returned" /\ IsRanked(index)) => IsRanked(results)

\* substituted hits of different scores are returned
C8_Witness ==
    /\ BothSearched /\ primary_hits = <<>>
    /\ Len(results) >= 2
    /\ results[1].score > results[2].score

C10_GuardOrder ==
    /\ embed_calls > 0 => vector_count > 0
    /\ search_calls > 0 => query_embedding # <<>>
    /\ (rpc \in {"finally", "returned"} /\ vector_count = 0) =>
          (results = <<>> /\ embed_calls = 0 /\ search_calls = 0)
    /\ (rpc \in {"finally", "returned"} /\ embed_calls > 0 /\ query_embedding = <<>>) =>
          (results = <<>> /\ search_calls = 0)

\* a call on an empty collection has returned
C10_Witness ==
    /\ rpc = "returned"
    /\ vector_count = 0
    /\ failed = {}
    /\ embed_calls = 0

\* C21: the chunk_id of every result retrieve() returns is the
\* application-level chunk_id assigned at ingestion and kept in the payload,
\* not the storage-level id the store derived from it.
C21_ApplicationId ==
    rpc = "returned" =>
        \A i \in 1..Len(results) :
            /\ results[i].chunk_id = results[i].metadata.chunk_id
            /\ results[i].chunk_id # Uuid(results[i].metadata.original_id)

\* what the code returns instead: the uuid5 of the id kept in the payload
C21_StorageId ==
    rpc = "returned" =>
        \A i \in 1..Len(results) :
            results[i].chunk_id = Uuid(results[i].metadata.original_id)

\* the client-side-filtered diagnostic set, counted up to k
FilteredUpToK == Take(FilteredResults(search_results_all, min_score, k), k)

\* C26 as stated: whenever the primary search returns fewer hits than the
\* client-side-filtered diagnostic set holds (counted up to k), also when it
\* returns some, retrieve returns the filtered diagnostic set truncated to k.
C26_FewerSubstituted ==
    (BothSearched /\ Len(primary_hits) < Len(FilteredUpToK)) =>
        results = FormatResults(FilteredUpToK)

\* C26 as amended: retrieve returns the filtered diagnostic set truncated to
\* k exactly when the primary search returned nothing and that set is not
\* empty; a primary search that returned at least one hit is returned as it
\* is, also when the filtered diagnostic set holds more hits.
C26_EmptySubstituted ==
    BothSearched =>
        results = FormatResults(IF primary_hits = <<>> /\ FilteredUpToK # <<>>
                                THEN FilteredUpToK
                                ELSE primary_hits)

\* the primary search returned a hit, the filtered diagnostic set holds more,
\* and the primary hits are what retrieve returns
C26_Witness ==
    /\ BothSearched
    /\ primary_hits # <<>>
    /\ Len(primary_hits) < Len(FilteredUpToK)
    /\ results = FormatResults(primary_hits)

-----------------------------------------------------------------------------
(* Properties of the hybrid retriever *)

AllEmpty(rs) == \A n \in DOMAIN rs : rs[n] = <<>>

\* the fallback strategy the call is executing, 0 when it executes none
TierRunning ==
    CASE hpc = "tier1"                         -> 1
      [] hpc \in {"expand", "loop", "collect"} -> 2
      [] hpc \in {"tier3", "tier3_wait"}       -> 3
      [] hpc \in {"tier4", "tier4_wait"}       -> 4
      [] OTHER                                 -> 0

\* C11: retrieve_with_fallback is a strict escalation ladder: a strategy runs
\* only when every strategy before it has returned the empty list, a call
\* that returns gives back unchanged the result of the last strategy it ran
\* (the first non-empty one, if any), and min_score is written only by a call
\* whose first three strategies all came back empty.
C11_StrictLadder ==
    hcaller = "fallback" =>
        /\ TierRunning # 0 =>
              Len(tier_results) = TierRunning - 1 /\ AllEmpty(tier_results)
        /\ hpc = "returned" =>
              /\ tier_results # <<>>
              /\ AllEmpty(SubSeq(tier_results, 1, Len(tier_results) - 1))
              /\ hybrid_results = tier_results[Len(tier_results)]
              /\ Len(tier_results) < 4 => tier_results[Len(tier_results)] # <<>>
        /\ min_score_writes > 0 =>
              Len(tier_results) >= 3 /\ AllEmpty(SubSeq(tier_results, 1, 3))

\* strategies 1 and 2 returned [], strategy 3 returned two hits: they are the
\* output and strategy 4 never ran
C11_Witness ==
    /\ hcaller = "fallback" /\ hpc = "returned"
    /\ Len(tier_results) = 3
    /\ Len(tier_results[3]) = 2
    /\ hybrid_results = tier_results[3]
    /\ min_score_writes = 0
    /\ min_score = entry_min_score

\* C12: fallback monotonicity: a retrieve_with_fallback call that returns
\* gives a non-empty list whenever one of the strategies it ran returned a
\* non-empty list, and gives [] only after all four strategies returned [].
C12_Monotone ==
    (hcaller = "fallback" /\ hpc = "returned") =>
        /\ (\E n \in DOMAIN tier_results : tier_results[n] # <<>>)
              => hybrid_results # <<>>
        /\ hybrid_results = <<>>
              => (Len(tier_results) = 4 /\ AllEmpty(tier_results))

\* three strategies came back empty and the fourth found hits
C12_Witness ==
    /\ hcaller = "fallback" /\ hpc = "returned"
    /\ Len(tier_results) = 4
    /\ AllEmpty(SubSeq(tier_results, 1, 3))
    /\ hybrid_results # <<>>

\* all four strategies came back empty
C12_WitnessEmpty ==
    /\ hcaller = "fallback" /\ hpc = "returned"
    /\ Len(tier_results) = 4
    /\ hybrid_results = <<>>

\* C13: scoped threshold rollback: once a retrieve_with_fallback call has
\* ended, by a return or by an exception, min_score is what it was when the
\* call was entered, and so it is the configured value after any sequence of
\* calls.
C13_Rollback ==
    (hcaller = "fallback" /\ hpc \in {"returned", "raised"}) =>
        /\ min_score = entry_min_score
        /\ min_score = DefaultMinScore

\* the rollback on the path where strategy 4's retrieve() returns
C13_RollbackOnReturn ==
    (hcaller = "fallback" /\ hpc = "returned") => min_score = entry_min_score

\* C14: the list retrieve_with_expansion returns contains no chunk_id twice.
C14_NoDuplicateIds ==
    \A i, j \in DOMAIN expansion_results :
        i # j => expansion_results[i].chunk_id # expansion_results[j].chunk_id

\* an expansion that returned several chunks after its dedup loop had skipped
\* a chunk it had already seen
C14_Witness ==
    /\ hpc = "returned"
    /\ Len(expansion_results) >= 2
    /\ dropped > 0

\* the variants whose result set contained chunk id c, by 1-based index
VariantsWith(c) ==
    {i \in 1..Len(variant_results) :
        \E j \in 1..Len(variant_results[i].res) : variant_results[i].res[j].chunk_id = c}

\* C24: retrieve_with_expansion searches the variants in list order, the
\* original query first, and every chunk of its output carries the score and
\* the 1-based query_variation of the earliest variant whose result set
\* contained it, also when a later variant scored the chunk higher.
C24_FirstSeenWins ==
    /\ \A i \in 1..Len(variant_results) : variant_results[i].q = queries[i]
    /\ variant_results # <<>> => variant_results[1].q = query
    /\ \A n \in 1..Len(expansion_results) :
          LET e     == expansion_results[n]
              first == SetMin(VariantsWith(e.chunk_id))
          IN  /\ VariantsWith(e.chunk_id) # {}
              /\ e.query_variation = first
              /\ \E j \in 1..Len(variant_results[first].res) :
                    /\ variant_results[first].res[j].chunk_id = e.chunk_id
                    /\ variant_results[first].res[j].score = e.score

\* an output with a chunk that a later variant returned with a higher score
C24_Witness ==
    \E n \in 1..Len(expansion_results) :
        \E i \in VariantsWith(expansion_results[n].chunk_id) :
            \E j \in 1..Len(variant_results[i].res) :
                /\ variant_results[i].res[j].chunk_id = expansion_results[n].chunk_id
                /\ variant_results[i].res[j].score > expansion_results[n].score
                /\ i > expansion_results[n].query_variation

\* retrieve_with_expansion has returned
ExpansionDone ==
    \/ hcaller = "expansion" /\ hpc = "returned"
    \/ hcaller = "fallback" /\ Len(tier_results) >= 2

\* the chunk ids some variant returned
UnionIds == {c \in {AppId(n) : n \in 1..Len(index)} : VariantsWith(Uuid(c)) # {}}

IdsOf(rs) == {rs[n].chunk_id : n \in 1..Len(rs)}

\* C25: the list retrieve_with_expansion returns is sorted by score
\* non-increasing, has at most 2 * top_k entries and consists of the
\* 2 * top_k highest-scored entries of the deduplicated union of the variants'
\* results, of all of them when the union is smaller.
C25_TopOfUnion ==
    ExpansionDone =>
        /\ IsRanked(expansion_results)
        /\ Len(expansion_results) <= 2 * req_top_k
        /\ Len(expansion_results) = Min(2 * req_top_k, Cardinality(UnionIds))
        /\ IdsOf(expansion_results) \subseteq {Uuid(c) : c \in UnionIds}
        /\ Cardinality(IdsOf(expansion_results)) = Len(expansion_results)
        /\ \A a \in 1..Len(all_results) :
              all_results[a].chunk_id \notin IdsOf(expansion_results) =>
                  \A n \in 1..Len(expansion_results) :
                      all_results[a].score <= expansion_results[n].score
        /\ IdsOf(all_results) = {Uuid(c) : c \in UnionIds}

\* a returned list that is the cut of a larger union: the chunk the original
\* query found first scored lowest and was cut
C25_Witness ==
    /\ ExpansionDone
    /\ Cardinality(UnionIds) > 2 * req_top_k
    /\ Len(expansion_results) = 2 * req_top_k
    /\ \E a \in 1..Len(all_results) :
          /\ all_results[a].query_variation = 1
          /\ all_results[a].chunk_id \notin IdsOf(expansion_results)
          /\ \A n \in 1..Len(expansion_results) :
                all_results[a].score < expansion_results[n].score

\* C27: retrieve(), retrieve_with_expansion and strategies 1 to 3 of
\* retrieve_with_fallback never write Retriever.min_score or Retriever.top_k;
\* min_score is written only inside strategy 4 (the override and its
\* restore).
C27_Frame ==
    [][/\ top_k' = top_k
       /\ min_score' # min_score =>
             /\ hcaller = "fallback"
             /\ hpc \in {"tier4", "tier4_wait"}
             /\ min_score_writes' = min_score_writes + 1]_vars

\* strategies 1 to 3 have run and strategy 4 has put its override in place
C27_Witness ==
    /\ hcaller = "fallback" /\ hpc = "tier4_wait"
    /\ Len(tier_results) = 3
    /\ min_score_writes = 1
    /\ min_score # entry_min_score
    /\ top_k = MaxK

\* C29: strategy 4 only ever relaxes the threshold: whatever min_score the
\* Retriever is configured with, the threshold in effect while strategy 4's
\* retrieve() runs is at most that configured value.
C29_OnlyRelaxes ==
    (hcaller = "fallback" /\ hpc = "tier4_wait") => min_score <= entry_min_score

\* what the code does: strategy 4 retrieves under the fixed floor
C29_FixedFloor ==
    (hcaller = "fallback" /\ hpc = "tier4_wait") => min_score = LowThreshold

-----------------------------------------------------------------------------
(* Properties of the query optimizer *)

\* C15: expand_query returns between one and four queries, the first of
\* which is the original query, whatever the LLM answered; when the LLM call
\* fails it returns the original query and its keywords, a string made of
\* words of the lower-cased query.
C15_ExpandShape ==
    (hcaller = "expand_query" /\ hpc = "returned") =>
        /\ Len(queries) >= 1 /\ Len(queries) <= 4
        /\ queries[1] = query
        /\ response = LLMFailure =>
              /\ queries = <<query, extract_keywords(query, hash_seed)>>
              /\ \A w \in {Words(queries[2])[i] : i \in 1..Len(Words(queries[2]))} :
                    Contains(lower(query), w)

\* the LLM answered with more than three non-blank lines
C15_Witness ==
    /\ hcaller = "expand_query" /\ hpc = "returned"
    /\ response # LLMFailure
    /\ Len(SelectSeq(PySplit(response, <<"\n">>), LAMBDA v : strip(v) # <<>>)) > 3
    /\ Len(queries) = 4

\* the LLM call failed on a query with several keywords
C15_WitnessFailure ==
    /\ hcaller = "expand_query" /\ hpc = "returned"
    /\ response = LLMFailure
    /\ Len(Words(queries[2])) >= 3

-----------------------------------------------------------------------------
(* Properties of the normalizer *)

\* the letters among the characters the inputs are made of
Letters ==
    {LowerLetters[i] : i \in DOMAIN LowerLetters}
        \cup {UpperLetters[i] : i \in DOMAIN UpperLetters} \cup {EAcute}

AsciiLetters ==
    {LowerLetters[i] : i \in DOMAIN LowerLetters}
        \cup {UpperLetters[i] : i \in DOMAIN UpperLetters}

Digits == {DigitChars[i] : i \in DOMAIN DigitChars}

Punctuation == {",", ".", "-", "_"}

\* C16: normalize is idempotent: normalizing a normalized text changes
\* nothing; null and the empty text normalize to the empty text.
C16_Idempotent ==
    npc = "done" =>
        /\ norm_twice = norm_out
        /\ norm_in \in {NULL, <<>>} => norm_out = <<>>

\* a text that normalization changed into a non-empty text
C16_Witness ==
    /\ npc = "done"
    /\ norm_in # NULL
    /\ \E i \in 1..Len(norm_in) : norm_in[i] = "!"
    /\ \E i \in 1..Len(norm_in) : norm_in[i] = "B"
    /\ Len(norm_out) >= 3
    /\ norm_out # norm_in

\* C17: normalize lower-cases, replaces every character that is no letter,
\* digit, whitespace, comma, period, hyphen or underscore by a space, collapses
\* whitespace and trims: the scenario text gives "hello, world foo_bar", the
\* output has only allowed characters, no two adjacent whitespace characters
\* and no whitespace at its ends, and the letters, digits and the four
\* punctuation characters of the input all survive, lower-cased and in order.
C17_Normalize ==
    (npc = "done" /\ norm_in # NULL) =>
        /\ norm_in = ScenarioRaw => norm_out = ScenarioNormalized
        /\ \A i \in 1..Len(norm_out) :
               norm_out[i] \in Letters \cup Digits \cup Punctuation \cup {" "}
        /\ IsNormalizedText(norm_out)
        /\ SelectSeq(norm_out, LAMBDA c : c \notin Whitespace)
              = SelectSeq(lower(norm_in),
                          LAMBDA c : c \in Letters \cup Digits \cup Punctuation)

\* the same with the letters a-z and A-Z only: what the character class
\* [^a-z0-9\s,.\-_] keeps after lower-casing
C17_AsciiClass ==
    (npc = "done" /\ norm_in # NULL) =>
        /\ norm_in = ScenarioRaw => norm_out = ScenarioNormalized
        /\ \A i \in 1..Len(norm_out) : norm_out[i] \in (AllowedChars \ {"\n", "\t"})
        /\ IsNormalizedText(norm_out)
        /\ SelectSeq(norm_out, LAMBDA c : c \notin Whitespace)
              = SelectSeq(lower(norm_in),
                          LAMBDA c : c \in AsciiLetters \cup Digits \cup Punctuation)

\* C22: every retrieve() has closed the handle it opened and cleared
\* Retriever.client when it ends, by a return, an early empty return or an
\* exception; in a sequential run of retrieve calls made by the hybrid
\* retriever at most one index handle is open at any time and none is open
\* between calls.
C22_AcquireRelease ==
    /\ open_handles <= 1
    /\ open_handles = IF client = "store" THEN 1 ELSE 0
    /\ rpc \in {"idle", "returned", "raised"} => (client = "None" /\ open_handles = 0)

\* a retrieve() of a later fallback tier that had opened its handle and ended
\* with an exception
C22_Witness ==
    /\ Len(tier_results) >= 1
    /\ rpc = "raised" /\ vector_count # Unset
    /\ client = "None" /\ open_handles = 0


-----------------------------------------------------------------------------
(* Properties of overlapping retrieve() calls *)

Ended(t) == tpc[t] \in {"done", "raised"}

\* C30: when retrieve() calls on one Retriever overlap, each call uses and
\* closes exactly the handle it opened: no call closes or clears the handle
\* of another call, no call proceeds on a cleared (None) handle, and no handle
\* is left open after all calls have ended.
C30_OwnHandleOnly ==
    /\ \A t \in DOMAIN touched : \A e \in touched[t] :
          /\ e[1] \in {"use", "close"} => (e[2] # NoHandle /\ e[2] = opened[t])
          /\ e[1] = "clear" => e[2] \in {NoHandle, opened[t]}
    /\ (\A t \in DOMAIN tpc : Ended(t)) => handles = {}

\* one session alone: its call uses, closes and clears its own handle
C30_Alone ==
    (\A t \in DOMAIN tpc : t # 1 => tpc[t] = "idle") =>
        /\ \A e \in touched[1] : e[2] = opened[1] /\ e[2] # NoHandle
        /\ Ended(1) => handles = {}

====
